---------------------------- MODULE Spec2Model ----------------------------
(***************************************************************************)
(* A model of the dragontoothmg legal move generator: the Board with its   *)
(* two Bitboards structs, the move generator (movegen.go), the move        *)
(* applier Make/Undo/MakeNullMove/UndoNullMove and the termination         *)
(* evaluator.                                                              *)
(*                                                                         *)
(* A uint64 bitboard is modelled as the set of its set bits (a subset of   *)
(* 0..63): & is \cap, | is \cup, &^ is \, TrailingZeros64 is the minimum   *)
(* (64 for the empty board), OnesCount64 is Cardinality.                   *)
(* A uint64 Zobrist hash is modelled as the set of the codes XORed into    *)
(* it (XOR is the symmetric difference); the codes are taken to be         *)
(* independent, as a Zobrist scheme assumes.                               *)
(***************************************************************************)
EXTENDS Integers, Sequences, FiniteSets, TLC

(***************************************************************************)
(* Piece and Termination constants.                                        *)
(***************************************************************************)
Nothing == 0
Pawn == 1
Knight == 2
Bishop == 3
Rook == 4
Queen == 5
King == 6

TerminationNone == 0
TerminationCheckmate == 1
TerminationStalemate == 2
TerminationFiftyMovesRule == 4
TerminationInsufficientMaterial == 8

(***************************************************************************)
(* Bounds of the model.                                                    *)
(***************************************************************************)
\* how many entries Make and MakeNullMove may add to the history a board starts with
MaxPly == 2

(***************************************************************************)
(* Bitboard helpers.                                                       *)
(***************************************************************************)
Squares == 0..63

File(sq) == sq % 8
Rank(sq) == sq \div 8
OnBoard(f, r) == f \in 0..7 /\ r \in 0..7
Sq(f, r) == 8 * r + f

Abs(x) == IF x < 0 THEN -x ELSE x
Sign(x) == IF x < 0 THEN -1 ELSE IF x > 0 THEN 1 ELSE 0

\* bits.TrailingZeros64
TrailingZeros64(bb) == IF bb = {} THEN 64 ELSE CHOOSE x \in bb : \A y \in bb : x <= y

\* uint64(1) << s, for a shift count held in a uint8: a count of 64 or more gives 0
Bit(s) == IF s \in Squares THEN {s} ELSE {}

\* bb << n and bb >> n on a uint64
ShiftLeft(bb, n) == {s + n : s \in {t \in bb : t + n <= 63}}
ShiftRight(bb, n) == {s - n : s \in {t \in bb : t - n >= 0}}

\* a ^ b on hashes
Xor(a, b) == (a \ b) \cup (b \ a)

\* the squares of a bitboard in the order the loops `for bb != 0 { TrailingZeros64; bb &= bb-1 }` visit them
RECURSIVE BitsAscending(_)
BitsAscending(bb) ==
    IF bb = {} THEN <<>>
    ELSE LET lo == TrailingZeros64(bb) IN <<lo>> \o BitsAscending(bb \ {lo})

Range(seq) == {seq[i] : i \in 1..Len(seq)}

\* the element of a one-element set
Only(S) == CHOOSE x \in S : TRUE

RECURSIVE Flatten(_)
Flatten(seqs) == IF seqs = <<>> THEN <<>> ELSE Head(seqs) \o Flatten(Tail(seqs))

(***************************************************************************)
(* The precomputed tables.                                                 *)
(***************************************************************************)
onlyRank == [r \in 0..7 |-> {s \in Squares : Rank(s) = r}]
onlyFile == [f \in 0..7 |-> {s \in Squares : File(s) = f}]
everything == Squares

KnightDeltas == {<<1, 2>>, <<2, 1>>, <<2, -1>>, <<1, -2>>, <<-1, -2>>, <<-2, -1>>, <<-2, 1>>, <<-1, 2>>}
KingDeltas == {<<1, 0>>, <<1, 1>>, <<0, 1>>, <<-1, 1>>, <<-1, 0>>, <<-1, -1>>, <<0, -1>>, <<1, -1>>}

JumpMask(s, deltas) ==
    {Sq(File(s) + d[1], Rank(s) + d[2]) : d \in {e \in deltas : OnBoard(File(s) + e[1], Rank(s) + e[2])}}

knightMasks == [s \in Squares |-> JumpMask(s, KnightDeltas)]
kingMasks == [s \in Squares |-> JumpMask(s, KingDeltas)]

\* the squares on the rook lines (bishop lines) through s, s excluded
RookLine == [s \in Squares |-> {t \in Squares : t /= s /\ (File(t) = File(s) \/ Rank(t) = Rank(s))}]
BishopLine == [s \in Squares |->
    {t \in Squares : t /= s /\ Abs(File(t) - File(s)) = Abs(Rank(t) - Rank(s))}]

\* the squares strictly between two squares of one line
Between == [s \in Squares |-> [t \in Squares |->
    IF t \in RookLine[s] \/ t \in BishopLine[s]
    THEN LET df == Sign(File(t) - File(s))
             dr == Sign(Rank(t) - Rank(s))
             n == IF File(t) /= File(s) THEN Abs(File(t) - File(s)) ELSE Abs(Rank(t) - Rank(s))
         IN {Sq(File(s) + k * df, Rank(s) + k * dr) : k \in 1..(n - 1)}
    ELSE {}]]

\* magicMovesRook[sq][index of the blockers]: the true attack set of a rook on sq
magicMovesRook(sq, blockers) == {t \in RookLine[sq] : Between[sq][t] \cap blockers = {}}
magicMovesBishop(sq, blockers) == {t \in BishopLine[sq] : Between[sq][t] \cap blockers = {}}

CalculateRookMoveBitboard(currRook, allPieces) == magicMovesRook(currRook, allPieces)
CalculateBishopMoveBitboard(currBishop, allPieces) == magicMovesBishop(currBishop, allPieces)

(***************************************************************************)
(* Move: 6 bits destination, 6 bits origin, 3 bits promotion.              *)
(***************************************************************************)
To(m) == m % 64
From(m) == (m \div 64) % 64
Promote(m) == (m \div 4096) % 8
Setto(m, s) == (m - To(m)) + s
Setfrom(m, s) == (m - 64 * From(m)) + 64 * s
Setpromote(m, p) == (m - 4096 * Promote(m)) + 4096 * p
\* var move Move; move.Setfrom(from).Setto(to)
MoveOf(from, to) == Setto(Setfrom(0, from), to)


(***************************************************************************)
(* Board: castling rights helpers.  castlerights is a uint8 holding, from  *)
(* the LSB, white queenside, white kingside, black queenside, black        *)
(* kingside.                                                               *)
(***************************************************************************)
BitOf(n, k) == (n \div (2 ^ k)) % 2
FlipBit(n, k) == IF BitOf(n, k) = 1 THEN n - 2 ^ k ELSE n + 2 ^ k

whiteCanCastleQueenside(b) == BitOf(b.castlerights, 0) = 1
whiteCanCastleKingside(b) == BitOf(b.castlerights, 1) = 1
blackCanCastleQueenside(b) == BitOf(b.castlerights, 2) = 1
blackCanCastleKingside(b) == BitOf(b.castlerights, 3) = 1
canCastleQueenside(b) == IF b.Wtomove THEN whiteCanCastleQueenside(b) ELSE blackCanCastleQueenside(b)
canCastleKingside(b) == IF b.Wtomove THEN whiteCanCastleKingside(b) ELSE blackCanCastleKingside(b)
oppCanCastleQueenside(b) == IF b.Wtomove THEN blackCanCastleQueenside(b) ELSE whiteCanCastleQueenside(b)
oppCanCastleKingside(b) == IF b.Wtomove THEN blackCanCastleKingside(b) ELSE whiteCanCastleKingside(b)

(***************************************************************************)
(* The Zobrist codes.  pieceSquareZobristC[i][sq] is code 64*i+sq, with    *)
(* i = 0..5 the white and 6..11 the black pieces; the en-passant square is *)
(* XORed into the hash as the plain number uint64(square), modelled by its *)
(* six bits.                                                               *)
(***************************************************************************)
pieceSquareZobristC(i, sq) == {64 * i + sq}
whiteToMoveZobristC == {768}
castleRightsZobristC(k) == {769 + k}
EpCode(sq) == {773 + k : k \in {j \in 0..5 : BitOf(sq, j) = 1}}

flipWhiteQueensideCastle(b) ==
    [b EXCEPT !.castlerights = FlipBit(@, 0), !.hash = Xor(@, castleRightsZobristC(1))]
flipWhiteKingsideCastle(b) ==
    [b EXCEPT !.castlerights = FlipBit(@, 1), !.hash = Xor(@, castleRightsZobristC(0))]
flipBlackQueensideCastle(b) ==
    [b EXCEPT !.castlerights = FlipBit(@, 2), !.hash = Xor(@, castleRightsZobristC(3))]
flipBlackKingsideCastle(b) ==
    [b EXCEPT !.castlerights = FlipBit(@, 3), !.hash = Xor(@, castleRightsZobristC(2))]
flipQueensideCastle(b) == IF b.Wtomove THEN flipWhiteQueensideCastle(b) ELSE flipBlackQueensideCastle(b)
flipKingsideCastle(b) == IF b.Wtomove THEN flipWhiteKingsideCastle(b) ELSE flipBlackKingsideCastle(b)
flipOppQueensideCastle(b) == IF b.Wtomove THEN flipBlackQueensideCastle(b) ELSE flipWhiteQueensideCastle(b)
flipOppKingsideCastle(b) == IF b.Wtomove THEN flipBlackKingsideCastle(b) ELSE flipWhiteKingsideCastle(b)

(***************************************************************************)
(* Attack Query Engine.                                                    *)
(***************************************************************************)
\* Returns [n |-> number of attackers, mask |-> attackers and interposing squares];
\* it returns early, with the mask found so far, once n >= abortEarly.
CountAttacks(b, byBlack, origin, abortEarly) ==
    LET allPieces == b.White.All \cup b.Black.All
        opponentPieces == IF byBlack THEN b.Black ELSE b.White
        knight_attackers == knightMasks[origin] \cap opponentPieces.Knights
        n1 == Cardinality(knight_attackers)
        m1 == knight_attackers
        origin_diag_rays == magicMovesBishop(origin, allPieces)
        diag_attackers == origin_diag_rays \cap (opponentPieces.Bishops \cup opponentPieces.Queens)
        n2 == n1 + Cardinality(diag_attackers)
        m2 == m1 \cup diag_attackers
        m2r == m2 \cup UNION {CalculateBishopMoveBitboard(a, allPieces) \cap origin_diag_rays :
                                a \in diag_attackers}
        origin_ortho_rays == magicMovesRook(origin, allPieces)
        ortho_attackers == origin_ortho_rays \cap (opponentPieces.Rooks \cup opponentPieces.Queens)
        n3 == n2 + Cardinality(ortho_attackers)
        m3 == m2r \cup ortho_attackers
        m3r == m3 \cup UNION {CalculateRookMoveBitboard(a, allPieces) \cap origin_ortho_rays :
                                a \in ortho_attackers}
        king_attackers == kingMasks[origin] \cap opponentPieces.Kings
        n4 == n3 + Cardinality(king_attackers)
        m4 == m3r \cup king_attackers
        pawn_attackers_mask ==
            (IF byBlack
             THEN (Bit(origin + 7) \ onlyFile[7]) \cup (Bit(origin + 9) \ onlyFile[0])
             ELSE (Bit((origin - 7) % 256) \ onlyFile[0]) \cup (Bit((origin - 9) % 256) \ onlyFile[7]))
            \cap opponentPieces.Pawns
        n5 == n4 + Cardinality(pawn_attackers_mask)
        m5 == m4 \cup pawn_attackers_mask
    IN IF n1 >= abortEarly THEN [n |-> n1, mask |-> m1]
       ELSE IF n2 >= abortEarly THEN [n |-> n2, mask |-> m2]
       ELSE IF n3 >= abortEarly THEN [n |-> n3, mask |-> m3]
       ELSE IF n4 >= abortEarly THEN [n |-> n4, mask |-> m4]
       ELSE [n |-> n5, mask |-> m5]

NoneUnderDirectAttack(b, byBlack, squares) == FALSE

UnderDirectAttack(b, byBlack, origin) == CountAttacks(b, byBlack, origin, 1).n >= 1

AnyUnderDirectAttack(b, byBlack, squares) ==
    \E i \in 1..Len(squares) : UnderDirectAttack(b, byBlack, squares[i])

OurKingInCheck(b) ==
    LET origin == IF b.Wtomove THEN TrailingZeros64(b.White.Kings)
                  ELSE TrailingZeros64(b.Black.Kings)
    IN CountAttacks(b, b.Wtomove, origin, 1).n >= 1


(***************************************************************************)
(* Move Generator.  A move list is a sequence, in the order of the appends.*)
(***************************************************************************)
genMovesFromTargets(origin, targets) ==
    LET ts == BitsAscending(targets) IN [i \in 1..Len(ts) |-> MoveOf(origin, ts[i])]

\* Promotion: only the queen is offered
PromotionMovesQueenOnly(move) == <<Setpromote(move, Queen)>>

\* for i := Piece(Knight); i <= Queen; i++ { move.Setpromote(i); append }
PromotionMoves(move) == [i \in 1..4 |-> Setpromote(move, Knight + i - 1)]

ourBitboards(b) == IF b.Wtomove THEN b.White ELSE b.Black
oppBitboards(b) == IF b.Wtomove THEN b.Black ELSE b.White

\* the moves left to a rook or queen pinned by an orthogonal slider
pinnedOrthoTargetsOffLine(pinnedPieceAllMoves, rookTargets, kingOrthoTargets, currRookIdx) ==
    pinnedPieceAllMoves

pinnedOrthoTargets(pinnedPieceAllMoves, rookTargets, kingOrthoTargets, currRookIdx) ==
    pinnedPieceAllMoves \cap (rookTargets \cup kingOrthoTargets \cup Bit(currRookIdx))

\* one iteration of the loop over the opponent's orthogonal sliders
PinnedByRook(b, currRookIdx, allowDest) ==
    LET ourPieces == ourBitboards(b)
        oppPieces == oppBitboards(b)
        ourKingIdx == TrailingZeros64(ourPieces.Kings)
        pawnPushDirection == IF b.Wtomove THEN 1 ELSE -1
        doublePushRank == IF b.Wtomove THEN onlyRank[3] ELSE onlyRank[4]
        allPieces == oppPieces.All \cup ourPieces.All
        kingOrthoTargets == CalculateRookMoveBitboard(ourKingIdx, allPieces)
        rookTargets == CalculateRookMoveBitboard(currRookIdx, allPieces) \ oppPieces.All
        pinnedPiece == (rookTargets \cap kingOrthoTargets) \cap ourPieces.All
        pinnedPieceIdx == TrailingZeros64(pinnedPiece)
        sameRank == Rank(pinnedPieceIdx) = Rank(ourKingIdx) /\ Rank(pinnedPieceIdx) = Rank(currRookIdx)
        sameFile == File(pinnedPieceIdx) = File(ourKingIdx) /\ File(pinnedPieceIdx) = File(currRookIdx)
        single == Bit((pinnedPieceIdx + 8 * pawnPushDirection) % 256) \ allPieces
        pawnTargets ==
            (IF single /= {}
             THEN single \cup ((Bit((pinnedPieceIdx + 16 * pawnPushDirection) % 256) \ allPieces)
                               \cap doublePushRank)
             ELSE single) \cap allowDest
        pinnedPieceAllMoves == CalculateRookMoveBitboard(pinnedPieceIdx, allPieces) \ ourPieces.All
        pinnedTargets ==
            pinnedOrthoTargets(pinnedPieceAllMoves, rookTargets, kingOrthoTargets, currRookIdx)
            \cap allowDest
    IN IF pinnedPiece = {} THEN [moves |-> <<>>, pinned |-> {}]
       ELSE IF ~sameRank /\ ~sameFile THEN [moves |-> <<>>, pinned |-> {}]
       ELSE IF pinnedPiece \cap ourPieces.Pawns /= {}
            THEN [moves |-> IF sameFile THEN genMovesFromTargets(pinnedPieceIdx, pawnTargets) ELSE <<>>,
                  pinned |-> pinnedPiece]
       ELSE IF pinnedPiece \cap ourPieces.Rooks = {} /\ pinnedPiece \cap ourPieces.Queens = {}
            THEN [moves |-> <<>>, pinned |-> pinnedPiece]
       ELSE [moves |-> genMovesFromTargets(pinnedPieceIdx, pinnedTargets), pinned |-> pinnedPiece]

\* bishopToPinnedSlope != bishopToKingSlope on float32: each slope is
\* (index difference / 8) / (file difference), +Inf or -Inf when the files are equal
SlopesDiffer(fromIdx, aIdx, bIdx) ==
    LET da == aIdx - fromIdx
        db == bIdx - fromIdx
        fa == File(aIdx) - File(fromIdx)
        fb == File(bIdx) - File(fromIdx)
    IN IF fa = 0 /\ fb = 0 THEN da = 0 \/ db = 0 \/ Sign(da) /= Sign(db)
       ELSE IF fa = 0 \/ fb = 0 THEN TRUE
       ELSE da * fb /= db * fa

\* one iteration of the loop over the opponent's diagonal sliders
PinnedByBishop(b, currBishopIdx, allowDest) ==
    LET ourPieces == ourBitboards(b)
        oppPieces == oppBitboards(b)
        ourKingIdx == TrailingZeros64(ourPieces.Kings)
        ourPromotionRank == IF b.Wtomove THEN onlyRank[7] ELSE onlyRank[0]
        allPieces == oppPieces.All \cup ourPieces.All
        kingDiagTargets == CalculateBishopMoveBitboard(ourKingIdx, allPieces)
        bishopTargets == CalculateBishopMoveBitboard(currBishopIdx, allPieces) \ oppPieces.All
        pinnedPiece == (bishopTargets \cap kingDiagTargets) \cap ourPieces.All
        pinnedPieceIdx == TrailingZeros64(pinnedPiece)
        capture == MoveOf(pinnedPieceIdx, currBishopIdx)
        captureMoves ==
            IF Bit(currBishopIdx) \cap allowDest /= {}
               /\ ((b.Wtomove /\ Rank(pinnedPieceIdx) + 1 = Rank(currBishopIdx))
                   \/ (~b.Wtomove /\ Rank(pinnedPieceIdx) = Rank(currBishopIdx) + 1))
            THEN IF Bit(currBishopIdx) \cap ourPromotionRank /= {}
                 THEN PromotionMoves(capture)
                 ELSE <<capture>>
            ELSE <<>>
        \* (b.Wtomove && p+9 == ep || p+7 == ep) || (!b.Wtomove && p-9 == ep || p-7 == ep), on uint8
        epMoves ==
            IF b.enpassant > 0 /\ bishopTargets \cap Bit(b.enpassant) /= {}
               /\ (((b.Wtomove /\ (pinnedPieceIdx + 9) % 256 = b.enpassant)
                       \/ (pinnedPieceIdx + 7) % 256 = b.enpassant)
                   \/ ((~b.Wtomove /\ (pinnedPieceIdx - 9) % 256 = b.enpassant)
                       \/ (pinnedPieceIdx - 7) % 256 = b.enpassant))
            THEN <<MoveOf(pinnedPieceIdx, b.enpassant)>>
            ELSE <<>>
        pinnedPieceAllMoves == CalculateBishopMoveBitboard(pinnedPieceIdx, allPieces) \ ourPieces.All
        pinnedTargets ==
            (pinnedPieceAllMoves \cap (bishopTargets \cup kingDiagTargets \cup Bit(currBishopIdx)))
            \cap allowDest
    IN IF pinnedPiece = {} THEN [moves |-> <<>>, pinned |-> {}]
       ELSE IF SlopesDiffer(currBishopIdx, pinnedPieceIdx, ourKingIdx) THEN [moves |-> <<>>, pinned |-> {}]
       ELSE IF pinnedPiece \cap ourPieces.Pawns /= {}
            THEN [moves |-> captureMoves \o epMoves, pinned |-> pinnedPiece]
       ELSE IF pinnedPiece \cap ourPieces.Bishops = {} /\ pinnedPiece \cap ourPieces.Queens = {}
            THEN [moves |-> <<>>, pinned |-> pinnedPiece]
       ELSE [moves |-> genMovesFromTargets(pinnedPieceIdx, pinnedTargets), pinned |-> pinnedPiece]

\* Returns [moves |-> the moves of the pinned pieces, pinned |-> allPinnedPieces]
generatePinnedMoves(b, allowDest) ==
    LET oppPieces == oppBitboards(b)
        oppRooks == BitsAscending(oppPieces.Rooks \cup oppPieces.Queens)
        oppBishops == BitsAscending(oppPieces.Bishops \cup oppPieces.Queens)
        byRook == [i \in 1..Len(oppRooks) |-> PinnedByRook(b, oppRooks[i], allowDest)]
        byBishop == [i \in 1..Len(oppBishops) |-> PinnedByBishop(b, oppBishops[i], allowDest)]
    IN [moves |-> Flatten([i \in 1..Len(byRook) |-> byRook[i].moves])
                  \o Flatten([i \in 1..Len(byBishop) |-> byBishop[i].moves]),
        pinned |-> UNION {byRook[i].pinned : i \in 1..Len(byRook)}
                   \cup UNION {byBishop[i].pinned : i \in 1..Len(byBishop)}]


\* pawnPushBitboards with White's double-push rank used for both sides
pawnPushBitboardsWhiteRankForBoth(b, nonpinned) ==
    LET free == (Squares \ b.White.All) \ b.Black.All
        targets == IF b.Wtomove THEN ShiftLeft(b.White.Pawns \cap nonpinned, 8) \cap free
                   ELSE ShiftRight(b.Black.Pawns \cap nonpinned, 8) \cap free
    IN [targets |-> targets,
        doubleTargets |-> ((IF b.Wtomove THEN ShiftLeft(targets, 8) ELSE ShiftRight(targets, 8))
                           \cap onlyRank[3]) \cap free]

\* Returns [targets, doubleTargets]
pawnPushBitboards(b, nonpinned) ==
    LET free == (Squares \ b.White.All) \ b.Black.All
    IN IF b.Wtomove
       THEN LET targets == ShiftLeft(b.White.Pawns \cap nonpinned, 8) \cap free
            IN [targets |-> targets,
                doubleTargets |-> (ShiftLeft(targets, 8) \cap onlyRank[3]) \cap free]
       ELSE LET targets == ShiftRight(b.Black.Pawns \cap nonpinned, 8) \cap free
            IN [targets |-> targets,
                doubleTargets |-> (ShiftRight(targets, 8) \cap onlyRank[4]) \cap free]

pawnPushes(b, nonpinned, allowDest) ==
    LET bbs == pawnPushBitboards(b, nonpinned)
        targets == BitsAscending(bbs.targets \cap allowDest)
        doubleTargets == BitsAscending(bbs.doubleTargets \cap allowDest)
        oneRankBack == IF b.Wtomove THEN -8 ELSE 8
        PushMoves(target) ==
            LET canPromote == IF b.Wtomove THEN target >= 56 ELSE target <= 7
                move == MoveOf(target + oneRankBack, target)
            IN IF canPromote THEN PromotionMoves(move) ELSE <<move>>
    IN Flatten([i \in 1..Len(targets) |-> PushMoves(targets[i])])
       \o [i \in 1..Len(doubleTargets) |->
              MoveOf(doubleTargets[i] + 2 * oneRankBack, doubleTargets[i])]

\* Returns [east, west]
pawnCaptureBitboards(b, nonpinned) ==
    LET notHFile == Squares \ onlyFile[7]
        notAFile == Squares \ onlyFile[0]
        epTargets == IF b.enpassant > 0 THEN Bit(b.enpassant) ELSE {}
    IN IF b.Wtomove
       THEN LET targets == epTargets \cup b.Black.All
                ourpawns == b.White.Pawns \cap nonpinned
            IN [east |-> (ShiftLeft(ourpawns, 9) \cap notAFile) \cap targets,
                west |-> (ShiftLeft(ourpawns, 7) \cap notHFile) \cap targets]
       ELSE LET targets == epTargets \cup b.White.All
                ourpawns == b.Black.Pawns \cap nonpinned
            IN [east |-> (ShiftRight(ourpawns, 7) \cap notAFile) \cap targets,
                west |-> (ShiftRight(ourpawns, 9) \cap notHFile) \cap targets]

EnPassantTrialSkipped(b, move) == b

\* the board while pawnCaptures tries the en-passant capture move: the capturing pawn
\* moved, the passed pawn removed
EnPassantTrialBoard(b, move) ==
    LET enpassantEnemy == IF b.Wtomove THEN (To(move) - 8) % 256 ELSE (To(move) + 8) % 256
        TrialOur(our) == [our EXCEPT !.Pawns = (@ \ Bit(From(move))) \cup Bit(To(move)),
                                     !.All = (@ \ Bit(From(move))) \cup Bit(To(move))]
        TrialOpp(opp) == [opp EXCEPT !.Pawns = @ \ Bit(enpassantEnemy),
                                     !.All = @ \ Bit(enpassantEnemy)]
    IN IF b.Wtomove
       THEN [b EXCEPT !.White = TrialOur(@), !.Black = TrialOpp(@)]
       ELSE [b EXCEPT !.Black = TrialOur(@), !.White = TrialOpp(@)]

pawnCaptures(b, nonpinned, allowDest0) ==
    LET bbs == pawnCaptureBitboards(b, nonpinned)
        allowDest == IF b.enpassant > 0 THEN allowDest0 \cup Bit(b.enpassant) ELSE allowDest0
        east == bbs.east \cap allowDest
        west == bbs.west \cap allowDest
        dirbitboards == IF b.Wtomove THEN <<east, west>> ELSE <<west, east>>
        CaptureMoves(dir, target) ==
            LET from == IF b.Wtomove THEN target - (9 - (dir * 2)) ELSE target + (9 - (dir * 2))
                canPromote == IF b.Wtomove THEN target >= 56 ELSE target <= 7
                move == MoveOf(from, target)
            IN IF target = b.enpassant /\ b.enpassant /= 0
                  /\ OurKingInCheck(EnPassantTrialBoard(b, move))
               THEN <<>>
               ELSE IF canPromote THEN PromotionMoves(move) ELSE <<move>>
        DirMoves(dir) ==
            LET ts == BitsAscending(dirbitboards[dir + 1])
            IN Flatten([i \in 1..Len(ts) |-> CaptureMoves(dir, ts[i])])
    IN DirMoves(0) \o DirMoves(1)

knightMoves(b, nonpinned, allowDest) ==
    LET our == ourBitboards(b)
        ourKnights == BitsAscending(our.Knights \cap nonpinned)
        noFriendlyPieces == Squares \ our.All
    IN Flatten([i \in 1..Len(ourKnights) |->
           genMovesFromTargets(ourKnights[i],
                               (knightMasks[ourKnights[i]] \cap noFriendlyPieces) \cap allowDest)])

\* the board while kingPushes tests the king's destinations: the king taken off it
KingRemovedBoard(b) ==
    LET our == ourBitboards(b)
        ourKingLocation == TrailingZeros64(our.Kings)
        removed == [our EXCEPT !.Kings = {}, !.All = @ \ Bit(ourKingLocation)]
    IN IF b.Wtomove THEN [b EXCEPT !.White = removed] ELSE [b EXCEPT !.Black = removed]

\* Double check: kingPushes testing the king's destinations with the king left on the board
kingPushesKingStays(b) ==
    LET our == ourBitboards(b)
        ourKingLocation == TrailingZeros64(our.Kings)
        targets == kingMasks[ourKingLocation] \cap (Squares \ our.All)
    IN genMovesFromTargets(ourKingLocation,
                           {t \in targets : ~UnderDirectAttack(b, b.Wtomove, t)})

kingPushes(b) ==
    LET our == ourBitboards(b)
        ourKingLocation == TrailingZeros64(our.Kings)
        noFriendlyPieces == Squares \ our.All
        trial == KingRemovedBoard(b)
        targets == kingMasks[ourKingLocation] \cap noFriendlyPieces
    IN genMovesFromTargets(ourKingLocation,
                           {t \in targets : ~UnderDirectAttack(trial, b.Wtomove, t)})

kingCastlingMoves(b) ==
    LET allPieces == b.White.All \cup b.Black.All
        ourKingLocation == IF b.Wtomove THEN TrailingZeros64(b.White.Kings)
                           ELSE TrailingZeros64(b.Black.Kings)
        kingsideClear == IF b.Wtomove THEN allPieces \cap {5, 6} = {}
                         ELSE allPieces \cap {61, 62} = {}
        queensideClear == IF b.Wtomove THEN allPieces \cap {3, 2, 1} = {}
                          ELSE allPieces \cap {57, 58, 59} = {}
        CanCastleQueenside ==
            IF b.Wtomove
            THEN whiteCanCastleQueenside(b) /\ queensideClear
                 /\ ~AnyUnderDirectAttack(b, TRUE, <<2, 3>>)
            ELSE blackCanCastleQueenside(b) /\ queensideClear
                 /\ ~AnyUnderDirectAttack(b, FALSE, <<58, 59>>)
        CanCastleKingside ==
            IF b.Wtomove
            THEN whiteCanCastleKingside(b) /\ kingsideClear
                 /\ ~AnyUnderDirectAttack(b, TRUE, <<5, 6>>)
            ELSE blackCanCastleKingside(b) /\ kingsideClear
                 /\ ~AnyUnderDirectAttack(b, FALSE, <<61, 62>>)
    IN (IF CanCastleKingside THEN <<MoveOf(ourKingLocation, ourKingLocation + 2)>> ELSE <<>>)
       \o (IF CanCastleQueenside THEN <<MoveOf(ourKingLocation, ourKingLocation - 2)>> ELSE <<>>)

kingMoves(b) == kingCastlingMoves(b) \o kingPushes(b)

rookMoves(b, nonpinned, allowDest) ==
    LET our == ourBitboards(b)
        ourRooks == BitsAscending(our.Rooks \cap nonpinned)
        allPieces == b.White.All \cup b.Black.All
    IN Flatten([i \in 1..Len(ourRooks) |->
           genMovesFromTargets(ourRooks[i],
               (CalculateRookMoveBitboard(ourRooks[i], allPieces) \ our.All) \cap allowDest)])

bishopMoves(b, nonpinned, allowDest) ==
    LET our == ourBitboards(b)
        ourBishops == BitsAscending(our.Bishops \cap nonpinned)
        allPieces == b.White.All \cup b.Black.All
    IN Flatten([i \in 1..Len(ourBishops) |->
           genMovesFromTargets(ourBishops[i],
               (CalculateBishopMoveBitboard(ourBishops[i], allPieces) \ our.All) \cap allowDest)])

queenMoves(b, nonpinned, allowDest) ==
    LET our == ourBitboards(b)
        ourQueens == BitsAscending(our.Queens \cap nonpinned)
        allPieces == b.White.All \cup b.Black.All
    IN Flatten([i \in 1..Len(ourQueens) |->
           genMovesFromTargets(ourQueens[i],
               (CalculateBishopMoveBitboard(ourQueens[i], allPieces) \ our.All) \cap allowDest)
           \o genMovesFromTargets(ourQueens[i],
               (CalculateRookMoveBitboard(ourQueens[i], allPieces) \ our.All) \cap allowDest)])

\* the moves appended after the pinned pieces' moves, for a piece type or for all (Nothing);
\* while in check the king only gets kingPushes, otherwise kingMoves (castling, then pushes)
PieceMoves(b, piece, nonpinnedPieces, allowDest, inCheck) ==
    (IF piece \in {Nothing, Pawn}
     THEN pawnPushes(b, nonpinnedPieces, allowDest) \o pawnCaptures(b, nonpinnedPieces, allowDest)
     ELSE <<>>)
    \o (IF piece \in {Nothing, Knight} THEN knightMoves(b, nonpinnedPieces, allowDest) ELSE <<>>)
    \o (IF piece \in {Nothing, Rook} THEN rookMoves(b, nonpinnedPieces, allowDest) ELSE <<>>)
    \o (IF piece \in {Nothing, Bishop} THEN bishopMoves(b, nonpinnedPieces, allowDest) ELSE <<>>)
    \o (IF piece \in {Nothing, Queen} THEN queenMoves(b, nonpinnedPieces, allowDest) ELSE <<>>)
    \o (IF piece \in {Nothing, King} /\ ~inCheck THEN kingCastlingMoves(b) ELSE <<>>)
    \o (IF piece \in {Nothing, King} THEN kingPushes(b) ELSE <<>>)

\* the moves once the pinned pieces' moves (pins) are generated
movesAfterPins(b, piece, pins, allowDest, inCheck) ==
    pins.moves \o PieceMoves(b, piece, Squares \ pins.pinned, allowDest, inCheck)

\* Single check: the moves generated as when the king is not attacked, with every
\* destination allowed
movesGivenAttackersAnyDest(b, piece, kingAttackers, blockDest) ==
    IF kingAttackers >= 2
    THEN IF piece = Nothing \/ piece = King THEN kingPushes(b) ELSE <<>>
    ELSE movesAfterPins(b, piece, generatePinnedMoves(b, everything), everything,
                        kingAttackers = 1)

\* the moves once the king's attackers are counted: kingAttackers, blockDest
movesGivenAttackers(b, piece, kingAttackers, blockDest) ==
    IF kingAttackers >= 2
    THEN IF piece = Nothing \/ piece = King THEN kingPushes(b) ELSE <<>>
    ELSE movesAfterPins(b, piece,
                        generatePinnedMoves(b, IF kingAttackers = 1 THEN blockDest ELSE everything),
                        IF kingAttackers = 1 THEN blockDest ELSE everything,
                        kingAttackers = 1)

movesGivenAttacks(b, piece, attacks) == movesGivenAttackers(b, piece, attacks.n, attacks.mask)

GenerateMovesForPiece(b, piece) ==
    movesGivenAttacks(b, piece,
        CountAttacks(b, b.Wtomove,
                     IF b.Wtomove THEN TrailingZeros64(b.White.Kings)
                     ELSE TrailingZeros64(b.Black.Kings), 2))

GenerateLegalMoves(b) == GenerateMovesForPiece(b, Nothing)

(***************************************************************************)
(* The Board the generator leaves behind.  kingPushes and pawnCaptures     *)
(* write to the Board while they test a destination and write the old      *)
(* values back before they return.                                         *)
(***************************************************************************)
\* kingPushes returning with the king put back on its mask only
kingPushesRestoredKingsOnly(t, oldKings, ourKingLocation) ==
    IF t.Wtomove THEN [t EXCEPT !.White.Kings = oldKings]
    ELSE [t EXCEPT !.Black.Kings = oldKings]

\* ptrToOurBitboards.Kings = oldKings; ptrToOurBitboards.All |= (1 << ourKingLocation)
kingPushesRestored(t, oldKings, ourKingLocation) ==
    IF t.Wtomove
    THEN [t EXCEPT !.White.Kings = oldKings, !.White.All = @ \cup Bit(ourKingLocation)]
    ELSE [t EXCEPT !.Black.Kings = oldKings, !.Black.All = @ \cup Bit(ourKingLocation)]

\* the board when kingPushes returns
kingPushesBoard(b) ==
    kingPushesRestored(KingRemovedBoard(b), ourBitboards(b).Kings,
                       TrailingZeros64(ourBitboards(b).Kings))

\* pawnCaptures after OurKingInCheck on the trial board t: the six masks written back
enPassantTrialRestored(t, move) ==
    LET enpassantEnemy == IF t.Wtomove THEN (To(move) - 8) % 256 ELSE (To(move) + 8) % 256
        BackOur(our) == [our EXCEPT !.Pawns = (@ \cup Bit(From(move))) \ Bit(To(move)),
                                    !.All = (@ \cup Bit(From(move))) \ Bit(To(move))]
        BackOpp(opp) == [opp EXCEPT !.Pawns = @ \cup Bit(enpassantEnemy),
                                    !.All = @ \cup Bit(enpassantEnemy)]
    IN IF t.Wtomove
       THEN [t EXCEPT !.White = BackOur(@), !.Black = BackOpp(@)]
       ELSE [t EXCEPT !.Black = BackOur(@), !.White = BackOpp(@)]

\* the board when pawnCaptures returns: one trial for each capture onto the en-passant
\* square, first for the first direction of dirbitboards, then for the second
pawnCapturesBoard(b, nonpinned, allowDest0) ==
    LET bbs == pawnCaptureBitboards(b, nonpinned)
        first == IF b.Wtomove THEN bbs.east ELSE bbs.west
        second == IF b.Wtomove THEN bbs.west ELSE bbs.east
        FromOf(dir) == IF b.Wtomove THEN b.enpassant - (9 - (dir * 2))
                       ELSE b.enpassant + (9 - (dir * 2))
        Tried(c, dir) == enPassantTrialRestored(
                             EnPassantTrialBoard(c, MoveOf(FromOf(dir), b.enpassant)),
                             MoveOf(FromOf(dir), b.enpassant))
    IN IF b.enpassant = 0 THEN b
       ELSE Only({IF b.enpassant \in second THEN Tried(c, 1) ELSE c :
                    c \in {IF b.enpassant \in first THEN Tried(b, 0) ELSE b}})

\* the board when GenerateMovesForPiece(piece) returns
GenerateMovesForPieceBoard(b, piece) ==
    LET attacks == CountAttacks(b, b.Wtomove, TrailingZeros64(ourBitboards(b).Kings), 2)
        allowDest == IF attacks.n = 1 THEN attacks.mask ELSE everything
        AfterPawns(pins) ==
            IF attacks.n < 2 /\ piece \in {Nothing, Pawn}
            THEN pawnCapturesBoard(b, Squares \ pins.pinned, allowDest)
            ELSE b
    IN Only({IF piece \in {Nothing, King} THEN kingPushesBoard(c) ELSE c :
               c \in {AfterPawns(generatePinnedMoves(b, allowDest))}})



(***************************************************************************)
(* Move Applier.  A *uint64 into a Board's Bitboards is modelled as the    *)
(* pair (side, field) it addresses.                                        *)
(***************************************************************************)
NilPtr == [side |-> "nil", field |-> "nil"]
PtrTo(side, field) == [side |-> side, field |-> field]
Load(b, ptr) == b[ptr.side][ptr.field]
Store(b, ptr, bb) == [b EXCEPT ![ptr.side][ptr.field] = bb]

\* History{}: the zero value
HistoryZero ==
    [hashBefore |-> {}, hashCurrent |-> {}, resetHalfmoveClockFrom |-> 0,
     oldRookLoc |-> 0, newRookLoc |-> 0,
     flippedKsCastle |-> FALSE, flippedQsCastle |-> FALSE,
     flippedOppKsCastle |-> FALSE, flippedOppQsCastle |-> FALSE,
     capturedBitboard |-> NilPtr, actuallyPerformedEpCapture |-> FALSE,
     m |-> 0, oldEpCaptureSquare |-> 0, castleStatus |-> 0,
     capturedPieceType |-> Nothing, pieceType |-> Nothing, promotedToPieceType |-> Nothing,
     destTypeBitboard |-> NilPtr, pieceTypeBitboard |-> NilPtr]

\* Returns [pieceType, ptr]
determinePieceType(b, side, squareMask) ==
    LET bbs == b[side]
    IN IF squareMask \cap bbs.Pawns /= {} THEN [pieceType |-> Pawn, ptr |-> PtrTo(side, "Pawns")]
       ELSE IF squareMask \cap bbs.Knights /= {} THEN [pieceType |-> Knight, ptr |-> PtrTo(side, "Knights")]
       ELSE IF squareMask \cap bbs.Bishops /= {} THEN [pieceType |-> Bishop, ptr |-> PtrTo(side, "Bishops")]
       ELSE IF squareMask \cap bbs.Rooks /= {} THEN [pieceType |-> Rook, ptr |-> PtrTo(side, "Rooks")]
       ELSE IF squareMask \cap bbs.Queens /= {} THEN [pieceType |-> Queen, ptr |-> PtrTo(side, "Queens")]
       ELSE IF squareMask \cap bbs.Kings /= {} THEN [pieceType |-> King, ptr |-> PtrTo(side, "Kings")]
       ELSE [pieceType |-> Nothing, ptr |-> PtrTo(side, "All")]

\* whether the destination square of m holds a piece
IsCapture(m, b) == Bit(To(m)) \cap b.White.All /= {} \/ Bit(To(m)) \cap b.Black.All /= {}

\* Make: remove the old en passant square from the hash, and add the new one
foldEnPassantHashKeepsOld(hash, oldEpCaptureSquare, enpassant) == Xor(hash, EpCode(enpassant))

foldEnPassantHash(hash, oldEpCaptureSquare, enpassant) ==
    Xor(Xor(hash, EpCode(oldEpCaptureSquare)), EpCode(enpassant))

\* Make: the locals that depend on the side to move
ourSide(wtm) == IF wtm THEN "White" ELSE "Black"
oppSide(wtm) == IF wtm THEN "Black" ELSE "White"
epDeltaOf(wtm) == IF wtm THEN -8 ELSE 8
ourStartingRankBbOf(wtm) == IF wtm THEN onlyRank[0] ELSE onlyRank[7]
oppStartingRankBbOf(wtm) == IF wtm THEN onlyRank[7] ELSE onlyRank[0]
ourPiecesPawnZobristIndexOf(wtm) == IF wtm THEN 0 ELSE 6
oppPiecesPawnZobristIndexOf(wtm) == IF wtm THEN 6 ELSE 0

\* Make with a halfmove clock that only a pawn move resets
makeClocksCaptureCounts(b, m, mover) ==
    LET reset == mover.pieceType = Pawn
    IN [b |-> [b EXCEPT !.Fullmoveno = IF b.Wtomove THEN @ ELSE (@ + 1) % 65536,
                        !.Halfmoveclock = IF reset THEN 0 ELSE (@ + 1) % 256,
                        !.irreversibleIdx = IF reset THEN Len(b.history) - 1 ELSE @],
        h |-> [HistoryZero EXCEPT !.hashBefore = b.hash, !.m = m,
                                  !.pieceType = mover.pieceType,
                                  !.pieceTypeBitboard = mover.ptr,
                                  !.resetHalfmoveClockFrom = IF reset THEN b.Halfmoveclock ELSE -1]]

\* Make: the fullmove number and the halfmove clock, given the moving piece.
\* The result holds the board so far (b) and the undo fields so far (h).
makeClocks(b, m, mover) ==
    LET reset == IsCapture(m, b) \/ mover.pieceType = Pawn
    IN [b |-> [b EXCEPT !.Fullmoveno = IF b.Wtomove THEN @ ELSE (@ + 1) % 65536,
                        !.Halfmoveclock = IF reset THEN 0 ELSE (@ + 1) % 256,
                        !.irreversibleIdx = IF reset THEN Len(b.history) - 1 ELSE @],
        h |-> [HistoryZero EXCEPT !.hashBefore = b.hash, !.m = m,
                                  !.pieceType = mover.pieceType,
                                  !.pieceTypeBitboard = mover.ptr,
                                  !.resetHalfmoveClockFrom = IF reset THEN b.Halfmoveclock ELSE -1]]

makeBegin(b, m) == makeClocks(b, m, determinePieceType(b, ourSide(b.Wtomove), Bit(From(m))))

\* Make: a king move records the castling rook's squares
makeKingCastle(f, m) ==
    IF f.h.pieceType /= King THEN f
    ELSE IF (To(m) - From(m)) % 256 = 2
    THEN [f EXCEPT !.h.castleStatus = 1, !.h.oldRookLoc = (To(m) + 1) % 256,
                   !.h.newRookLoc = (To(m) - 1) % 256]
    ELSE IF To(m) - From(m) = -2
    THEN [f EXCEPT !.h.castleStatus = -1, !.h.oldRookLoc = (To(m) - 2) % 256,
                   !.h.newRookLoc = (To(m) + 1) % 256]
    ELSE f

\* Make: a king move strips the kingside castling right
makeKingKingside(f) ==
    IF f.h.pieceType = King /\ canCastleKingside(f.b)
    THEN [f EXCEPT !.b = flipKingsideCastle(@), !.h.flippedKsCastle = TRUE]
    ELSE f

\* Make: a king move strips the queenside castling right
makeKingQueenside(f) ==
    IF f.h.pieceType = King /\ canCastleQueenside(f.b)
    THEN [f EXCEPT !.b = flipQueensideCastle(@), !.h.flippedQsCastle = TRUE]
    ELSE f

\* Make: a rook move from its corner strips that side's castling right
makeRookMove(f, m) ==
    IF f.h.pieceType /= Rook THEN f
    ELSE IF canCastleKingside(f.b) /\ Bit(From(m)) \cap onlyFile[7] /= {}
            /\ Bit(From(m)) \cap ourStartingRankBbOf(f.b.Wtomove) /= {}
    THEN [f EXCEPT !.b = flipKingsideCastle(@), !.h.flippedKsCastle = TRUE]
    ELSE IF canCastleQueenside(f.b) /\ Bit(From(m)) \cap onlyFile[0] /= {}
            /\ Bit(From(m)) \cap ourStartingRankBbOf(f.b.Wtomove) /= {}
    THEN [f EXCEPT !.b = flipQueensideCastle(@), !.h.flippedQsCastle = TRUE]
    ELSE f

\* Make: the castling rook
makeCastlingRook(f) ==
    IF f.h.castleStatus = 0 THEN f
    ELSE [f EXCEPT
            !.b[ourSide(f.b.Wtomove)].Rooks = (@ \cup Bit(f.h.newRookLoc)) \ Bit(f.h.oldRookLoc),
            !.b[ourSide(f.b.Wtomove)].All = (@ \cup Bit(f.h.newRookLoc)) \ Bit(f.h.oldRookLoc),
            !.b.hash = Xor(Xor(@, pieceSquareZobristC(ourPiecesPawnZobristIndexOf(f.b.Wtomove) + (Rook - 1),
                                                      f.h.oldRookLoc)),
                           pieceSquareZobristC(ourPiecesPawnZobristIndexOf(f.b.Wtomove) + (Rook - 1),
                                               f.h.newRookLoc))]

\* Make: an en-passant capture strips the opponent's pawn
makeEnPassantCapture(f, m) ==
    IF f.h.pieceType = Pawn /\ To(m) = f.b.enpassant /\ f.b.enpassant /= 0
    THEN [f EXCEPT
            !.h.oldEpCaptureSquare = f.b.enpassant,
            !.h.actuallyPerformedEpCapture = TRUE,
            !.b[oppSide(f.b.Wtomove)].Pawns = @ \ Bit((f.b.enpassant + epDeltaOf(f.b.Wtomove)) % 256),
            !.b[oppSide(f.b.Wtomove)].All = @ \ Bit((f.b.enpassant + epDeltaOf(f.b.Wtomove)) % 256),
            !.b.hash = Xor(@, pieceSquareZobristC(oppPiecesPawnZobristIndexOf(f.b.Wtomove),
                                                  (f.b.enpassant + epDeltaOf(f.b.Wtomove)) % 256))]
    ELSE [f EXCEPT !.h.oldEpCaptureSquare = f.b.enpassant]

\* Make with no else branch: a move that is not a double push leaves the old square
makeEnPassantSquareNotCleared(f, m) ==
    [f EXCEPT !.b.enpassant =
        IF f.h.pieceType = Pawn /\ To(m) + 2 * epDeltaOf(f.b.Wtomove) = From(m)
        THEN (To(m) + epDeltaOf(f.b.Wtomove)) % 256 ELSE @]

\* Make: the en-passant square
makeEnPassantSquare(f, m) ==
    [f EXCEPT !.b.enpassant =
        IF f.h.pieceType = Pawn /\ To(m) + 2 * epDeltaOf(f.b.Wtomove) = From(m)
        THEN (To(m) + epDeltaOf(f.b.Wtomove)) % 256 ELSE 0]

\* Make: promotion
makePromotion(f, m) ==
    IF Promote(m) = Queen
    THEN [f EXCEPT !.h.destTypeBitboard = PtrTo(ourSide(f.b.Wtomove), "Queens"),
                   !.h.promotedToPieceType = Queen]
    ELSE IF Promote(m) = Knight
    THEN [f EXCEPT !.h.destTypeBitboard = PtrTo(ourSide(f.b.Wtomove), "Knights"),
                   !.h.promotedToPieceType = Knight]
    ELSE IF Promote(m) = Rook
    THEN [f EXCEPT !.h.destTypeBitboard = PtrTo(ourSide(f.b.Wtomove), "Rooks"),
                   !.h.promotedToPieceType = Rook]
    ELSE IF Promote(m) = Bishop
    THEN [f EXCEPT !.h.destTypeBitboard = PtrTo(ourSide(f.b.Wtomove), "Bishops"),
                   !.h.promotedToPieceType = Bishop]
    ELSE [f EXCEPT !.h.destTypeBitboard = f.h.pieceTypeBitboard,
                   !.h.promotedToPieceType = f.h.pieceType]

\* Make: the captured piece, given what stands on the destination square
makeCaptured(f, captured) ==
    [f EXCEPT !.h.capturedPieceType = captured.pieceType, !.h.capturedBitboard = captured.ptr]

\* Make: our pieces lose "from" and gain "to"
makeMoveAll(f, m) ==
    [f EXCEPT !.b[ourSide(f.b.Wtomove)].All = (@ \ Bit(From(m))) \cup Bit(To(m))]

\* Make: the piece leaves "from"
makeRemoveFrom(f, m) ==
    [f EXCEPT !.b = Store(@, f.h.pieceTypeBitboard, Load(f.b, f.h.pieceTypeBitboard) \ Bit(From(m)))]

\* Make: the piece arrives at "to"
makeAddTo(f, m) ==
    [f EXCEPT !.b = Store(@, f.h.destTypeBitboard, Load(f.b, f.h.destTypeBitboard) \cup Bit(To(m)))]

\* Make: the captured piece leaves its bitboard
makeRemoveCaptured(f, m) ==
    IF f.h.capturedPieceType = Nothing THEN f
    ELSE [f EXCEPT !.b = Store(@, f.h.capturedBitboard, Load(f.b, f.h.capturedBitboard) \ Bit(To(m)))]

\* Make: the captured piece leaves the opponent's pieces and the hash
makeRemoveCapturedHash(f, m) ==
    IF f.h.capturedPieceType = Nothing THEN f
    ELSE [f EXCEPT
            !.b[oppSide(f.b.Wtomove)].All = @ \ Bit(To(m)),
            !.b.hash = Xor(@, pieceSquareZobristC(oppPiecesPawnZobristIndexOf(f.b.Wtomove)
                                                  + (f.h.capturedPieceType - 1), To(m)))]

\* Make: the moved piece in the hash
makeMoveHash(f, m) ==
    [f EXCEPT !.b.hash =
        Xor(Xor(@, pieceSquareZobristC((f.h.pieceType - 1) + ourPiecesPawnZobristIndexOf(f.b.Wtomove),
                                       From(m))),
            pieceSquareZobristC((f.h.promotedToPieceType - 1) + ourPiecesPawnZobristIndexOf(f.b.Wtomove),
                                To(m)))]

\* Make without the lines that look at a captured rook
makeCapturedRookSkipped(f, m) == f

\* Make: a rook captured on its corner strips the opponent's castling right
makeCapturedRook(f, m) ==
    IF f.h.capturedPieceType /= Rook THEN f
    ELSE IF To(m) % 8 = 7 /\ Bit(To(m)) \cap oppStartingRankBbOf(f.b.Wtomove) /= {}
            /\ oppCanCastleKingside(f.b)
    THEN [f EXCEPT !.b = flipOppKingsideCastle(@), !.h.flippedOppKsCastle = TRUE]
    ELSE IF To(m) % 8 = 0 /\ Bit(To(m)) \cap oppStartingRankBbOf(f.b.Wtomove) /= {}
            /\ oppCanCastleQueenside(f.b)
    THEN [f EXCEPT !.b = flipOppQueensideCastle(@), !.h.flippedOppQsCastle = TRUE]
    ELSE f

\* Make: the side to move, and the en-passant square in the hash
makeSideToMove(f) ==
    [f EXCEPT !.b.hash = foldEnPassantHash(Xor(@, whiteToMoveZobristC),
                                           f.h.oldEpCaptureSquare, f.b.enpassant),
              !.b.Wtomove = ~@]

\* Make: the undo fields go onto the history
makeHistory(f) ==
    [f.b EXCEPT !.history = Append(@, [f.h EXCEPT !.hashCurrent = f.b.hash])]

makeWithCaptured(f, m) ==
    makeCaptured(f, determinePieceType(f.b, oppSide(f.b.Wtomove), Bit(To(m))))

\* Make, lines 65-150: the steps in the order of the code, read from the bottom up; each
\* step works on the board and the undo fields the step before it has left
makeBeforeMove(f0, m) ==
    Only({makePromotion(f, m) : f \in
         {makeEnPassantSquare(f, m) : f \in
         {makeEnPassantCapture(f, m) : f \in
         {makeCastlingRook(f) : f \in
         {makeRookMove(f, m) : f \in
         {makeKingQueenside(f) : f \in
         {makeKingKingside(f) : f \in
         {makeKingCastle(f0, m)}}}}}}}})

\* Make, lines 152-164: apply the move
makeApplyMove(f0, m) ==
    Only({makeMoveHash(f, m) : f \in
         {makeRemoveCapturedHash(f, m) : f \in
         {makeRemoveCaptured(f, m) : f \in
         {makeAddTo(f, m) : f \in
         {makeRemoveFrom(f, m) : f \in
         {makeMoveAll(f, m) : f \in
         {makeWithCaptured(f0, m)}}}}}}})

\* Make, lines 166-209
makeAfterMove(f0, m) ==
    Only({makeHistory(f) : f \in
         {makeSideToMove(f) : f \in
         {makeCapturedRook(f0, m)}}})

Make(b, m) ==
    Only({makeAfterMove(f, m) : f \in
         {makeApplyMove(f, m) : f \in
         {makeBeforeMove(f, m) : f \in
         {makeBegin(b, m)}}}})

\* Undo: restore the halfmove clock
restoreHalfmoveclockAlwaysDecrements(clock, u) == (clock - 1) % 256

restoreHalfmoveclock(clock, u) ==
    IF u.resetHalfmoveClockFrom = -1 THEN (clock - 1) % 256
    ELSE u.resetHalfmoveClockFrom % 256

\* Undo: the termination, the side to move and the halfmove clock.
\* After this step the side to move is again the side that made the move u.
undoSideToMove(b, u) ==
    [b EXCEPT !.termination = TerminationNone,
              !.Wtomove = ~@,
              !.Halfmoveclock = restoreHalfmoveclock(@, u)]

\* Undo: our pieces lose "to" and gain "from"
undoMoveAll(b, u) ==
    [b EXCEPT ![ourSide(b.Wtomove)].All = (@ \ Bit(To(u.m))) \cup Bit(From(u.m))]

\* Undo: the piece leaves "to"
undoRemoveTo(b, u) == Store(b, u.destTypeBitboard, Load(b, u.destTypeBitboard) \ Bit(To(u.m)))

\* Undo: the piece is back at "from"
undoAddFrom(b, u) == Store(b, u.pieceTypeBitboard, Load(b, u.pieceTypeBitboard) \cup Bit(From(u.m)))

\* Undo: the captured piece is back on its bitboard
undoRestoreCaptured(b, u) ==
    IF u.capturedPieceType = Nothing THEN b
    ELSE Store(b, u.capturedBitboard, Load(b, u.capturedBitboard) \cup Bit(To(u.m)))

\* Undo: the captured piece is back among the opponent's pieces
undoRestoreCapturedAll(b, u) ==
    IF u.capturedPieceType = Nothing THEN b
    ELSE [b EXCEPT ![oppSide(b.Wtomove)].All = @ \cup Bit(To(u.m))]

\* Undo: the castling rook
undoCastlingRook(b, u) ==
    IF u.castleStatus = 0 THEN b
    ELSE [b EXCEPT ![ourSide(b.Wtomove)].Rooks = (@ \ Bit(u.newRookLoc)) \cup Bit(u.oldRookLoc),
                   ![ourSide(b.Wtomove)].All = (@ \ Bit(u.newRookLoc)) \cup Bit(u.oldRookLoc)]

\* Undo: the en-passant square, and the pawn captured en passant
undoEnPassant(b, u) ==
    IF u.actuallyPerformedEpCapture
    THEN [b EXCEPT
            !.enpassant = u.oldEpCaptureSquare,
            ![oppSide(b.Wtomove)].Pawns = @ \cup Bit((u.oldEpCaptureSquare + epDeltaOf(b.Wtomove)) % 256),
            ![oppSide(b.Wtomove)].All = @ \cup Bit((u.oldEpCaptureSquare + epDeltaOf(b.Wtomove)) % 256)]
    ELSE [b EXCEPT !.enpassant = u.oldEpCaptureSquare]

\* Undo: the fullmove number
undoFullmoveno(b) ==
    [b EXCEPT !.Fullmoveno = IF ~b.Wtomove THEN (@ - 1) % 65536 ELSE @]

\* Undo: the castling flags
undoKsCastle(b, u) == IF u.flippedKsCastle THEN flipKingsideCastle(b) ELSE b
undoQsCastle(b, u) == IF u.flippedQsCastle THEN flipQueensideCastle(b) ELSE b
undoOppKsCastle(b, u) == IF u.flippedOppKsCastle THEN flipOppKingsideCastle(b) ELSE b
undoOppQsCastle(b, u) == IF u.flippedOppQsCastle THEN flipOppQueensideCastle(b) ELSE b

\* Undo: the hash and the history
undoHashAndHistory(b, u) ==
    [b EXCEPT !.hash = u.hashBefore, !.history = SubSeq(@, 1, Len(@) - 1)]

\* Undo, lines 218-257: the steps in the order of the code, read from the bottom up
undoMove(b, u) ==
    Only({undoRestoreCapturedAll(c, u) : c \in
         {undoRestoreCaptured(c, u) : c \in
         {undoAddFrom(c, u) : c \in
         {undoRemoveTo(c, u) : c \in
         {undoMoveAll(c, u) : c \in
         {undoSideToMove(b, u)}}}}}})

\* Undo, lines 259-278
undoRookAndEnPassant(b, u) ==
    Only({undoFullmoveno(c) : c \in
         {undoEnPassant(c, u) : c \in
         {undoCastlingRook(b, u)}}})

\* Undo, lines 280-297
undoCastleFlags(b, u) ==
    Only({undoHashAndHistory(c, u) : c \in
         {undoOppQsCastle(c, u) : c \in
         {undoOppKsCastle(c, u) : c \in
         {undoQsCastle(c, u) : c \in
         {undoKsCastle(b, u)}}}}})

\* Undo of the last history entry u
undoLast(b, u) ==
    Only({undoCastleFlags(c, u) : c \in
         {undoRookAndEnPassant(c, u) : c \in
         {undoMove(b, u)}}})

\* Undo with the guard len(b.history) == 0: the root entry is taken off the history
UndoGuardAtZero(b) ==
    IF Len(b.history) = 0 THEN b
    ELSE IF Len(b.history) = 1 THEN [b EXCEPT !.history = <<>>]
    ELSE undoLast(b, b.history[Len(b.history)])

Undo(b) ==
    IF Len(b.history) <= 1 THEN b ELSE undoLast(b, b.history[Len(b.history)])

\* Apply makes the move and returns the closure that undoes it
Apply(b, m) == [b |-> Make(b, m), unapply |-> "Undo"]
Unapply(b) == Undo(b)

\* MakeNullMove without the two lines that take the en-passant square away
MakeNullMoveKeepsEnPassant(b) ==
    [b EXCEPT !.hash = Xor(@, whiteToMoveZobristC),
              !.Wtomove = ~@,
              !.history = Append(@, [HistoryZero EXCEPT !.hashBefore = b.hash,
                                                        !.oldEpCaptureSquare = b.enpassant])]

MakeNullMove(b) ==
    [b EXCEPT !.hash = Xor(Xor(@, EpCode(b.enpassant)), whiteToMoveZobristC),
              !.enpassant = 0,
              !.Wtomove = ~@,
              !.history = Append(@, [HistoryZero EXCEPT !.hashBefore = b.hash,
                                                        !.oldEpCaptureSquare = b.enpassant])]

UndoNullMove(b) ==
    IF Len(b.history) = 0 THEN b
    ELSE LET u == b.history[Len(b.history)]
         IN [b EXCEPT !.Wtomove = ~@, !.enpassant = u.oldEpCaptureSquare,
                      !.hash = u.hashBefore, !.history = SubSeq(@, 1, Len(@) - 1)]


(***************************************************************************)
(* Termination Evaluator.                                                  *)
(***************************************************************************)
\* the loop of IsRepetition from index i on, with the count so far: the indices whose
\* entry it compares with the current hash, in the order it visits them
RECURSIVE scanFrom(_, _, _, _)
scanFrom(b, i, count, lowest) ==
    IF i >= lowest /\ count < 3
    THEN <<i>> \o scanFrom(b, i - 2,
                           IF b.history[i + 1].hashCurrent = b.hash THEN count + 1 ELSE count,
                           lowest)
    ELSE <<>>

\* the loop with the bound i >= 0 in place of i >= b.irreversibleIdx
repetitionScanWholeHistory(b) == scanFrom(b, Len(b.history) - 1, 0, 0)

\* for i := len(b.history) - 1; i >= b.irreversibleIdx && count < 3; i -= 2
repetitionScan(b) == scanFrom(b, Len(b.history) - 1, 0, b.irreversibleIdx)

\* count, when the loop is over
repetitionCount(b) ==
    LET scan == repetitionScan(b)
    IN Cardinality({k \in 1..Len(scan) : b.history[scan[k] + 1].hashCurrent = b.hash})

IsRepetition(b, nTimes) == repetitionCount(b) = nTimes

oneOrLess(bishops, knights) ==
    knights = {} \/ Cardinality(knights) = 1 \/ bishops = {} \/ Cardinality(bishops) = 1

\* Returns [b |-> the board after the call, ret |-> the result]
IsInsufficientMaterial(b) ==
    IF (b.White.Queens \cup b.White.Rooks \cup b.White.Pawns) /= {}
       \/ (b.Black.Queens \cup b.Black.Rooks \cup b.Black.Pawns) /= {}
    THEN [b |-> b, ret |-> FALSE]
    ELSE IF oneOrLess(b.White.Bishops, b.White.Knights) \/ oneOrLess(b.Black.Bishops, b.Black.Knights)
    THEN [b |-> [b EXCEPT !.termination = TerminationInsufficientMaterial], ret |-> TRUE]
    ELSE [b |-> b, ret |-> FALSE]

\* IsTerminated with no look at the king when there is no move
IsTerminatedAlwaysStalemate(b, moveCount) ==
    LET b1 == IF b.Halfmoveclock >= 100
              THEN [b EXCEPT !.termination = TerminationFiftyMovesRule] ELSE b
        b2 == IF moveCount = 0 THEN [b1 EXCEPT !.termination = TerminationStalemate] ELSE b1
    IN IF b2.termination /= TerminationNone THEN [b |-> b2, ret |-> TRUE]
       ELSE IF IsRepetition(b2, 3) THEN [b |-> b2, ret |-> TRUE]
       ELSE IsInsufficientMaterial(b2)

\* IsTerminated with b.Halfmoveclock > 100 in place of b.Halfmoveclock >= 100
IsTerminatedAfterHundred(b, moveCount) ==
    LET b1 == IF b.Halfmoveclock > 100
              THEN [b EXCEPT !.termination = TerminationFiftyMovesRule] ELSE b
        b2 == IF moveCount = 0
              THEN IF OurKingInCheck(b1)
                   THEN [b1 EXCEPT !.termination = TerminationCheckmate]
                   ELSE [b1 EXCEPT !.termination = TerminationStalemate]
              ELSE b1
    IN IF b2.termination /= TerminationNone THEN [b |-> b2, ret |-> TRUE]
       ELSE IF IsRepetition(b2, 3) THEN [b |-> b2, ret |-> TRUE]
       ELSE IsInsufficientMaterial(b2)

\* Returns [b |-> the board after the call, ret |-> the result]
IsTerminated(b, moveCount) ==
    LET b1 == IF b.Halfmoveclock >= 100
              THEN [b EXCEPT !.termination = TerminationFiftyMovesRule] ELSE b
        b2 == IF moveCount = 0
              THEN IF OurKingInCheck(b1)
                   THEN [b1 EXCEPT !.termination = TerminationCheckmate]
                   ELSE [b1 EXCEPT !.termination = TerminationStalemate]
              ELSE b1
    IN IF b2.termination /= TerminationNone THEN [b |-> b2, ret |-> TRUE]
       ELSE IF IsRepetition(b2, 3) THEN [b |-> b2, ret |-> TRUE]
       ELSE IsInsufficientMaterial(b2)

Termination(b) == b.termination
Hash(b) == b.hash

(***************************************************************************)
(* Position construction (ParseFen, FromFen).                              *)
(***************************************************************************)
\* the square of file f (1 = a .. 8 = h) and rank r (1..8)
SqAt(f, r) == 8 * (r - 1) + (f - 1)

Bitboards(pawns, knights, bishops, rooks, queens, kings) ==
    [Pawns |-> pawns, Bishops |-> bishops, Knights |-> knights, Rooks |-> rooks,
     Queens |-> queens, Kings |-> kings,
     All |-> pawns \cup knights \cup bishops \cup rooks \cup queens \cup kings]

PieceCodes(bbs, base) ==
    UNION {pieceSquareZobristC(base, s) : s \in bbs.Pawns}
    \cup UNION {pieceSquareZobristC(base + (Knight - 1), s) : s \in bbs.Knights}
    \cup UNION {pieceSquareZobristC(base + (Bishop - 1), s) : s \in bbs.Bishops}
    \cup UNION {pieceSquareZobristC(base + (Rook - 1), s) : s \in bbs.Rooks}
    \cup UNION {pieceSquareZobristC(base + (Queen - 1), s) : s \in bbs.Queens}
    \cup UNION {pieceSquareZobristC(base + (King - 1), s) : s \in bbs.Kings}

\* the hash composed from piece placement, side to move, castling rights and en-passant square
recomputeBoardHash(b) ==
    LET castle == (IF whiteCanCastleKingside(b) THEN castleRightsZobristC(0) ELSE {})
                  \cup (IF whiteCanCastleQueenside(b) THEN castleRightsZobristC(1) ELSE {})
                  \cup (IF blackCanCastleKingside(b) THEN castleRightsZobristC(2) ELSE {})
                  \cup (IF blackCanCastleQueenside(b) THEN castleRightsZobristC(3) ELSE {})
    IN Xor(PieceCodes(b.White, 0) \cup PieceCodes(b.Black, 6)
             \cup (IF b.Wtomove THEN whiteToMoveZobristC ELSE {}) \cup castle,
           EpCode(b.enpassant))

\* the Board of a FEN record: history holds the root entry, which records the position's hash
ParseFen(white, black, wtomove, castlerights, enpassant, halfmoveclock, fullmoveno) ==
    LET b0 == [Wtomove |-> wtomove, enpassant |-> enpassant, castlerights |-> castlerights,
               Halfmoveclock |-> halfmoveclock, Fullmoveno |-> fullmoveno,
               White |-> white, Black |-> black, hash |-> {},
               history |-> <<>>, termination |-> TerminationNone, irreversibleIdx |-> 0]
        h == recomputeBoardHash(b0)
    IN [b0 EXCEPT !.hash = h, !.history = <<[HistoryZero EXCEPT !.hashCurrent = h]>>]

\* FromFen("<fen> moves m1 m2 ..."): the moves are applied with Make
RECURSIVE MakeAll(_, _)
MakeAll(b, moves) ==
    IF moves = <<>> THEN b
    ELSE Only({MakeAll(next, Tail(moves)) : next \in {Make(b, Head(moves))}})

FromFen(b, moves) == MakeAll(b, moves)


(***************************************************************************)
(* The positions the boards of the model start from.                       *)
(***************************************************************************)
\* rnbqkbnr/pppppppp/8/8/8/8/PPPPPPPP/RNBQKBNR w KQkq - 0 1
Startpos ==
    ParseFen(Bitboards(onlyRank[1], {1, 6}, {2, 5}, {0, 7}, {3}, {4}),
             Bitboards(onlyRank[6], {57, 62}, {58, 61}, {56, 63}, {59}, {60}),
             TRUE, 15, 0, 0, 1)

\* r3k2r/8/8/8/8/8/8/R3K2R w KQkq - 0 1
PosCastle ==
    ParseFen(Bitboards({}, {}, {}, {SqAt(1, 1), SqAt(8, 1)}, {}, {SqAt(5, 1)}),
             Bitboards({}, {}, {}, {SqAt(1, 8), SqAt(8, 8)}, {}, {SqAt(5, 8)}),
             TRUE, 15, 0, 0, 1)

\* 4k3/8/8/3pP3/8/8/8/4K3 w - d6 0 2
PosEnPassant ==
    ParseFen(Bitboards({SqAt(5, 5)}, {}, {}, {}, {}, {SqAt(5, 1)}),
             Bitboards({SqAt(4, 5)}, {}, {}, {}, {}, {SqAt(5, 8)}),
             TRUE, 0, SqAt(4, 6), 0, 2)

\* 7k/3p4/8/K3P2r/8/8/8/8 b - - 0 1
PosEnPassantRank ==
    ParseFen(Bitboards({SqAt(5, 5)}, {}, {}, {}, {}, {SqAt(1, 5)}),
             Bitboards({SqAt(4, 7)}, {}, {}, {SqAt(8, 5)}, {}, {SqAt(8, 8)}),
             FALSE, 0, 0, 0, 1)

\* 1n2k3/P7/8/8/8/8/8/4K3 w - - 0 1
PosPromotion ==
    ParseFen(Bitboards({SqAt(1, 7)}, {}, {}, {}, {}, {SqAt(5, 1)}),
             Bitboards({}, {SqAt(2, 8)}, {}, {}, {}, {SqAt(5, 8)}),
             TRUE, 0, 0, 0, 1)

\* 4r2k/8/8/8/4R3/8/8/4K3 w - - 0 1
PosPinRook ==
    ParseFen(Bitboards({}, {}, {}, {SqAt(5, 4)}, {}, {SqAt(5, 1)}),
             Bitboards({}, {}, {}, {SqAt(5, 8)}, {}, {SqAt(8, 8)}),
             TRUE, 0, 0, 0, 1)

\* 4q2k/8/8/8/4Q3/8/8/4K3 w - - 0 1
PosPinQueen ==
    ParseFen(Bitboards({}, {}, {}, {}, {SqAt(5, 4)}, {SqAt(5, 1)}),
             Bitboards({}, {}, {}, {}, {SqAt(5, 8)}, {SqAt(8, 8)}),
             TRUE, 0, 0, 0, 1)

\* 4r2k/8/8/8/8/3p4/4P3/4K3 w - - 0 1
PosPinPawn ==
    ParseFen(Bitboards({SqAt(5, 2)}, {}, {}, {}, {}, {SqAt(5, 1)}),
             Bitboards({SqAt(4, 3)}, {}, {}, {SqAt(5, 8)}, {}, {SqAt(8, 8)}),
             TRUE, 0, 0, 0, 1)

\* 4r2k/8/8/7b/8/4N3/8/4K2R w - - 0 1
PosPinMinor ==
    ParseFen(Bitboards({}, {SqAt(5, 3)}, {}, {SqAt(8, 1)}, {}, {SqAt(5, 1)}),
             Bitboards({}, {}, {SqAt(8, 5)}, {SqAt(5, 8)}, {}, {SqAt(8, 8)}),
             TRUE, 0, 0, 0, 1)

\* 4r2k/8/8/8/1b2R3/8/8/4K3 w - - 0 1
PosPinInCheck ==
    ParseFen(Bitboards({}, {}, {}, {SqAt(5, 4)}, {}, {SqAt(5, 1)}),
             Bitboards({}, {}, {SqAt(2, 4)}, {SqAt(5, 8)}, {}, {SqAt(8, 8)}),
             TRUE, 0, 0, 0, 1)

\* 4k3/8/8/8/8/5n2/8/4K2r w - - 0 1
PosDoubleCheck ==
    ParseFen(Bitboards({}, {}, {}, {}, {}, {SqAt(5, 1)}),
             Bitboards({}, {SqAt(6, 3)}, {}, {SqAt(8, 1)}, {}, {SqAt(5, 8)}),
             TRUE, 0, 0, 0, 1)

\* 8/8/8/8/8/4k3/8/r3K3 w - - 6 4
PosCheckmate ==
    ParseFen(Bitboards({}, {}, {}, {}, {}, {SqAt(5, 1)}),
             Bitboards({}, {}, {}, {SqAt(1, 1)}, {}, {SqAt(5, 3)}),
             TRUE, 0, 0, 6, 4)

\* 4k3/4P3/4K3/8/8/8/8/8 b - - 0 1
PosStalemate ==
    ParseFen(Bitboards({SqAt(5, 7)}, {}, {}, {}, {}, {SqAt(5, 6)}),
             Bitboards({}, {}, {}, {}, {}, {SqAt(5, 8)}),
             FALSE, 0, 0, 0, 1)

\* 7k/ppp5/8/8/8/8/7K/8 w - - 100 1   and the same position with a halfmove clock of 99
PosFifty(halfmoveclock) ==
    ParseFen(Bitboards({}, {}, {}, {}, {}, {SqAt(8, 2)}),
             Bitboards({SqAt(1, 7), SqAt(2, 7), SqAt(3, 7)}, {}, {}, {}, {}, {SqAt(8, 8)}),
             TRUE, 0, 0, halfmoveclock, 1)

\* 8/8/8/r7/8/7K/2k5/8 w - - 0 1 moves h3g3 a5a4 g3h3 a4a5 h3g3 a5a4 g3h3
PosRepetition ==
    FromFen(ParseFen(Bitboards({}, {}, {}, {}, {}, {SqAt(8, 3)}),
                     Bitboards({}, {}, {}, {SqAt(1, 5)}, {}, {SqAt(3, 2)}),
                     TRUE, 0, 0, 0, 1),
            <<MoveOf(SqAt(8, 3), SqAt(7, 3)), MoveOf(SqAt(1, 5), SqAt(1, 4)),
              MoveOf(SqAt(7, 3), SqAt(8, 3)), MoveOf(SqAt(1, 4), SqAt(1, 5)),
              MoveOf(SqAt(8, 3), SqAt(7, 3)), MoveOf(SqAt(1, 5), SqAt(1, 4)),
              MoveOf(SqAt(7, 3), SqAt(8, 3))>>)

\* 2K5/3Pp3/8/8/6b1/8/8/7k b - - 0 1
PosPinnedPawnBehindEnPassant ==
    ParseFen(Bitboards({SqAt(4, 7)}, {}, {}, {}, {}, {SqAt(3, 8)}),
             Bitboards({SqAt(5, 7)}, {}, {SqAt(7, 4)}, {}, {}, {SqAt(8, 1)}),
             FALSE, 0, 0, 0, 1)

\* 7b/5p2/8/4P3/8/2K5/8/7k b - - 0 1
PosPinnedPawnEnPassant ==
    ParseFen(Bitboards({SqAt(5, 5)}, {}, {}, {}, {}, {SqAt(3, 3)}),
             Bitboards({SqAt(6, 7)}, {}, {SqAt(8, 8)}, {}, {}, {SqAt(8, 1)}),
             FALSE, 0, 0, 0, 1)

\* 8/8/8/2k5/3Pp3/8/8/4K3 b - d3 0 1
PosEnPassantOutOfCheck ==
    ParseFen(Bitboards({SqAt(4, 4)}, {}, {}, {}, {}, {SqAt(5, 1)}),
             Bitboards({SqAt(5, 4)}, {}, {}, {}, {}, {SqAt(3, 5)}),
             FALSE, 0, SqAt(4, 3), 0, 1)

\* 7b/6P1/5K2/8/8/8/8/k7 w - - 0 1
PosPinnedPromotion ==
    ParseFen(Bitboards({SqAt(7, 7)}, {}, {}, {}, {}, {SqAt(6, 6)}),
             Bitboards({}, {}, {SqAt(8, 8)}, {}, {}, {SqAt(1, 1)}),
             TRUE, 0, 0, 0, 1)

InitialBoards ==
    {PosCastle, PosEnPassant, PosEnPassantRank, PosPromotion, PosPinRook, PosPinQueen,
     PosPinPawn, PosPinMinor, PosPinInCheck, PosDoubleCheck, PosCheckmate, PosStalemate,
     PosFifty(100), PosFifty(99), PosRepetition, PosPinnedPawnBehindEnPassant,
     PosPinnedPawnEnPassant, PosEnPassantOutOfCheck, PosPinnedPromotion}

(***************************************************************************)
(* The state machine: one Board, mutated through its operations.           *)
(*   board  the Board                                                      *)
(*   ply    how many history entries were added since the start (bounds    *)
(*          the exploration)                                               *)
(*   last   the last call: its name, its argument, what it returned and    *)
(*          the board it was made on (after Undo: the move taken back and   *)
(*          the board before that move was made)                            *)
(*   walk   the node-counting traversal in progress, when there is one      *)
(***************************************************************************)
VARIABLES board, ply, last, walk

vars == <<board, ply, last, walk>>

NoCall == [op |-> "none", arg |-> 0, ret |-> FALSE, before |-> <<>>]

NoWalk == [n |-> 0, entered |-> FALSE, frames |-> <<>>, nodes |-> 0, done |-> FALSE]

Init ==
    /\ board \in InitialBoards
    /\ ply = 0
    /\ last = NoCall
    /\ walk = NoWalk

\* the entry MakeNullMove pushes names no bitboard
IsNullMoveEntry(u) == u.pieceTypeBitboard = NilPtr

\* b.Make(m), for a move m of b.GenerateLegalMoves(); with no king of the side to move the
\* generator indexes its tables with square 64 and the program stops there
DoMake ==
    /\ ourBitboards(board).Kings /= {}
    /\ ply < MaxPly
    /\ \E m \in Range(GenerateLegalMoves(board)) :
          /\ board' = Make(board, m)
          /\ last' = [op |-> "Make", arg |-> m, ret |-> FALSE, before |-> <<board>>]
    /\ ply' = ply + 1
    /\ UNCHANGED walk

\* b.Undo(); ret records that the call returned at its guard, with nothing taken back. On an
\* entry of MakeNullMove Undo dereferences the entry's nil bitboards and the program stops
DoUndo ==
    /\ Len(board.history) > 1 => ~IsNullMoveEntry(board.history[Len(board.history)])
    /\ board' = Undo(board)
    /\ ply' = IF ply > 0 THEN ply - 1 ELSE 0
    /\ last' = IF last.op = "Make"
               THEN [op |-> "Undo", arg |-> last.arg, ret |-> FALSE, before |-> last.before]
               ELSE [op |-> "Undo", arg |-> 0, ret |-> Len(board.history) <= 1,
                     before |-> <<>>]
    /\ UNCHANGED walk

\* b.IsTerminated(len(b.GenerateLegalMoves()))
DoIsTerminated ==
    /\ \E moveCount \in {Len(GenerateLegalMoves(board))} :
          \E r \in {IsTerminated(board, moveCount)} :
             /\ board' = r.b
             /\ last' = [op |-> "IsTerminated", arg |-> moveCount, ret |-> r.ret,
                         before |-> <<board>>]
    /\ ply' = ply
    /\ UNCHANGED walk

\* b.IsRepetition(nTimes)
DoIsRepetition ==
    /\ \E nTimes \in 1..3 :
          last' = [op |-> "IsRepetition", arg |-> nTimes, ret |-> IsRepetition(board, nTimes),
                   before |-> <<>>]
    /\ UNCHANGED <<board, ply, walk>>

Next == DoMake \/ DoUndo \/ DoIsTerminated \/ DoIsRepetition

Spec == Init /\ [][Next]_vars

(***************************************************************************)
(* The same Board, started from the standard initial position and played   *)
(* through a handful of opening moves.                                     *)
(***************************************************************************)
MaxOpeningPly == 3

\* e2e4 d2d4 g1f3 b1c3, e7e5 d7d5 g8f6 b8c6
OpeningMoves ==
    {MoveOf(SqAt(5, 2), SqAt(5, 4)), MoveOf(SqAt(4, 2), SqAt(4, 4)),
     MoveOf(SqAt(7, 1), SqAt(6, 3)), MoveOf(SqAt(2, 1), SqAt(3, 3)),
     MoveOf(SqAt(5, 7), SqAt(5, 5)), MoveOf(SqAt(4, 7), SqAt(4, 5)),
     MoveOf(SqAt(7, 8), SqAt(6, 6)), MoveOf(SqAt(2, 8), SqAt(3, 6))}

InitOpening ==
    /\ board = Startpos
    /\ ply = 0
    /\ last = NoCall
    /\ walk = NoWalk

\* b.Make(m), for an opening move m that b.GenerateLegalMoves() returns
DoMakeOpening ==
    /\ ply < MaxOpeningPly
    /\ \E m \in Range(GenerateLegalMoves(board)) \cap OpeningMoves :
          /\ board' = Make(board, m)
          /\ last' = [op |-> "Make", arg |-> m, ret |-> FALSE, before |-> <<board>>]
    /\ ply' = ply + 1
    /\ UNCHANGED walk

NextOpening == DoMakeOpening \/ DoUndo \/ DoIsTerminated

SpecOpening == InitOpening /\ [][NextOpening]_vars

(***************************************************************************)
(* The node-counting traversal from the standard initial position:         *)
(*     Perft(b, n): if n == 1 return len(b.GenerateLegalMoves());          *)
(*                  for each move: Make, count += Perft(b, n-1), Undo      *)
(* walk.frames holds, for each call that is inside its loop, the moves it  *)
(* loops over and the index of the next one.                               *)
(***************************************************************************)
PerftExpected == <<20, 400, 8902, 197281, 4865609>>

InitPerft ==
    /\ board = Startpos
    /\ ply = 0
    /\ last = NoCall
    /\ \E n \in 1..Len(PerftExpected) : walk = [NoWalk EXCEPT !.n = n]

Frame(b) == [moves |-> GenerateLegalMoves(b), i |-> 1]
TopFrame == walk.frames[Len(walk.frames)]
\* the depth left to the call whose loop is on top
Remaining == walk.n - (Len(walk.frames) - 1)
Advance(frames) == [frames EXCEPT ![Len(frames)].i = @ + 1]

\* the outermost call
PerftEnter ==
    /\ ~walk.entered
    /\ walk' = IF walk.n = 1
               THEN [walk EXCEPT !.entered = TRUE, !.nodes = Len(GenerateLegalMoves(board)),
                                 !.done = TRUE]
               ELSE [walk EXCEPT !.entered = TRUE, !.frames = <<Frame(board)>>]
    /\ UNCHANGED <<board, ply, last>>

\* one turn of the loop whose recursive call loops itself: Make, and enter the call
PerftDescend ==
    /\ walk.entered /\ ~walk.done /\ walk.frames /= <<>>
    /\ TopFrame.i <= Len(TopFrame.moves)
    /\ Remaining > 2
    /\ board' = Make(board, TopFrame.moves[TopFrame.i])
    /\ walk' = [walk EXCEPT !.frames = Append(Advance(@), Frame(board'))]
    /\ UNCHANGED <<ply, last>>

\* one turn of the loop whose recursive call has n == 1: Make, count the moves, Undo
PerftCountMoves ==
    /\ walk.entered /\ ~walk.done /\ walk.frames /= <<>>
    /\ TopFrame.i <= Len(TopFrame.moves)
    /\ Remaining = 2
    /\ LET made == Make(board, TopFrame.moves[TopFrame.i])
       IN /\ board' = Undo(made)
          /\ walk' = [walk EXCEPT !.frames = Advance(@),
                                  !.nodes = @ + Len(GenerateLegalMoves(made))]
    /\ UNCHANGED <<ply, last>>

\* the loop on top is over: the call returns, and its caller takes the move back
PerftReturn ==
    /\ walk.entered /\ ~walk.done /\ walk.frames /= <<>>
    /\ TopFrame.i > Len(TopFrame.moves)
    /\ IF Len(walk.frames) > 1
       THEN /\ board' = Undo(board)
            /\ walk' = [walk EXCEPT !.frames = SubSeq(@, 1, Len(@) - 1)]
       ELSE /\ board' = board
            /\ walk' = [walk EXCEPT !.frames = <<>>, !.done = TRUE]
    /\ UNCHANGED <<ply, last>>

NextPerft == PerftEnter \/ PerftDescend \/ PerftCountMoves \/ PerftReturn

SpecPerft == InitPerft /\ [][NextPerft]_vars


(***************************************************************************)
(* The rules of chess, stated from the board alone: what the generator's   *)
(* output is judged against.                                               *)
(***************************************************************************)
Occupied(b) == b.White.All \cup b.Black.All
Aligned(a, c) == a /= c /\ (File(a) = File(c) \/ Rank(a) = Rank(c)
                            \/ Abs(File(a) - File(c)) = Abs(Rank(a) - Rank(c)))
Straight(a, c) == a /= c /\ (File(a) = File(c) \/ Rank(a) = Rank(c))
Diagonal(a, c) == a /= c /\ Abs(File(a) - File(c)) = Abs(Rank(a) - Rank(c))
Distance(a, c) == IF Abs(File(a) - File(c)) > Abs(Rank(a) - Rank(c))
                  THEN Abs(File(a) - File(c)) ELSE Abs(Rank(a) - Rank(c))
StrictlyBetween(a, c) ==
    IF Aligned(a, c)
    THEN {Sq(File(a) + k * Sign(File(c) - File(a)), Rank(a) + k * Sign(Rank(c) - Rank(a))) :
            k \in 1..(Distance(a, c) - 1)}
    ELSE {}
ClearLine(b, a, c) == StrictlyBetween(a, c) \cap Occupied(b) = {}

\* a piece of the given side attacks the square
Attacked(b, byBlack, sq) ==
    LET enemy == IF byBlack THEN b.Black ELSE b.White
    IN \/ \E p \in enemy.Pawns : /\ Abs(File(p) - File(sq)) = 1
                                 /\ Rank(sq) - Rank(p) = (IF byBlack THEN -1 ELSE 1)
       \/ \E p \in enemy.Knights : {Abs(File(p) - File(sq)), Abs(Rank(p) - Rank(sq))} = {1, 2}
       \/ \E p \in enemy.Kings : Distance(p, sq) = 1
       \/ \E p \in enemy.Rooks \cup enemy.Queens : Straight(p, sq) /\ ClearLine(b, p, sq)
       \/ \E p \in enemy.Bishops \cup enemy.Queens : Diagonal(p, sq) /\ ClearLine(b, p, sq)

KingSquare(b, white) == TrailingZeros64(IF white THEN b.White.Kings ELSE b.Black.Kings)
LegalMoves == Range(GenerateLegalMoves(board))

\* the fields a Make/Undo round trip has to bring back
SameObservableFields(a, c) ==
    /\ a.White = c.White /\ a.Black = c.Black
    /\ a.castlerights = c.castlerights
    /\ a.enpassant = c.enpassant
    /\ a.Halfmoveclock = c.Halfmoveclock
    /\ a.Fullmoveno = c.Fullmoveno
    /\ a.hash = c.hash
    /\ Len(a.history) = Len(c.history)

(***************************************************************************)
(* C1  Round trip: for the board of every state and every move m of        *)
(* GenerateLegalMoves, Make(m) followed by Undo() brings back both sides'  *)
(* bitboards, the castling rights, the en-passant square, the halfmove     *)
(* clock, the fullmove number, the hash and the history length; so does    *)
(* Apply(m) followed by the function Apply returned.                       *)
(***************************************************************************)
C1_MakeUndoRoundTrip ==
    \A m \in LegalMoves :
        /\ SameObservableFields(Undo(Make(board, m)), board)
        /\ SameObservableFields(Unapply(Apply(board, m).b), board)

\* an Undo has just taken back a capture, which had reset a nonzero halfmove clock
C1_Witness ==
    /\ last.op = "Undo"
    /\ last.before /= <<>>
    /\ last.before[1].Halfmoveclock > 0
    /\ To(last.arg) \in Occupied(last.before[1])
    /\ SameObservableFields(board, last.before[1])

(***************************************************************************)
(* C2  Soundness: after Make(m), for every move m of GenerateLegalMoves,   *)
(* no enemy piece attacks the king of the side that moved; the en-passant  *)
(* captures among the moves are among those the statement covers.          *)
(***************************************************************************)
IsEnPassantCapture(b, m) ==
    /\ b.enpassant /= 0 /\ To(m) = b.enpassant
    /\ From(m) \in ourBitboards(b).Pawns

C2_Soundness ==
    \A m \in LegalMoves :
        LET a == Make(board, m)
        IN ~Attacked(a, ~a.Wtomove, KingSquare(a, ~a.Wtomove))

\* an en-passant capture was generated and made, and the capturing side's king is safe
C2_Witness ==
    /\ last.op = "Make" /\ IsEnPassantCapture(last.before[1], last.arg)
    /\ ~Attacked(board, ~board.Wtomove, KingSquare(board, ~board.Wtomove))

\* an en-passant capture is withheld: taking both pawns off the king's rank would bare
\* the king to a rook
EnPassantWithheld ==
    /\ last.op = "Make" /\ board.enpassant /= 0
    /\ \E p \in ourBitboards(board).Pawns :
         /\ Abs(File(p) - File(board.enpassant)) = 1
         /\ Rank(p) = Rank(KingSquare(board, board.Wtomove))
         /\ Abs(Rank(p) - Rank(board.enpassant)) = 1
         /\ MoveOf(p, board.enpassant) \notin LegalMoves

(***************************************************************************)
(* C4  Castling gating: a king move of two files is generated only if the  *)
(* right for that side of the board is held, every square between the king *)
(* and the rook's corner is empty, and the opponent attacks none of the    *)
(* king's start, transit and landing squares.                              *)
(***************************************************************************)
IsCastlingMove(b, m) ==
    /\ From(m) = KingSquare(b, b.Wtomove)
    /\ Rank(From(m)) = Rank(To(m))
    /\ Abs(File(To(m)) - File(From(m))) = 2

CastlingRightHeld(b, kingside) ==
    BitOf(b.castlerights, (IF b.Wtomove THEN 0 ELSE 2) + (IF kingside THEN 1 ELSE 0)) = 1

C4_CastlingGating ==
    \A m \in LegalMoves :
        IsCastlingMove(board, m) =>
            LET kingside == To(m) > From(m)
                corner == Sq(IF kingside THEN 7 ELSE 0, Rank(From(m)))
            IN /\ CastlingRightHeld(board, kingside)
               /\ ClearLine(board, From(m), corner)
               /\ \A sq \in {From(m), To(m)} \cup StrictlyBetween(From(m), To(m)) :
                     ~Attacked(board, board.Wtomove, sq)

\* a castling move was generated and made
C4_Witness ==
    /\ last.op = "Make" /\ IsCastlingMove(last.before[1], last.arg)
    /\ CastlingRightHeld(last.before[1], To(last.arg) > From(last.arg))

\* the right is held and the way is empty, but a transit square is attacked and the move
\* is not generated
CastlingWithheld ==
    /\ CastlingRightHeld(board, TRUE)
    /\ LET k == KingSquare(board, board.Wtomove)
       IN /\ File(k) = 4
          /\ ClearLine(board, k, Sq(7, Rank(k)))
          /\ ~Attacked(board, board.Wtomove, k)
          /\ Attacked(board, board.Wtomove, k + 1)
          /\ MoveOf(k, k + 2) \notin LegalMoves

(***************************************************************************)
(* C5  Pin correctness on a file.                                          *)
(***************************************************************************)
\* x is the only piece between the king of the side to move and the enemy rook or queen r,
\* all three on one file
FilePinnedBy(b, x, r) ==
    LET k == KingSquare(b, b.Wtomove)
    IN /\ x \in ourBitboards(b).All \ ourBitboards(b).Kings
       /\ r \in oppBitboards(b).Rooks \cup oppBitboards(b).Queens
       /\ File(r) = File(k) /\ File(x) = File(k)
       /\ StrictlyBetween(k, r) \cap Occupied(b) = {x}

PinLine(b, r) == StrictlyBetween(KingSquare(b, b.Wtomove), r) \cup {r}

\* where the piece on x could go by the way its kind moves, the king's safety left aside
NaturalTargets(b, x) ==
    LET our == ourBitboards(b)
        opp == oppBitboards(b)
        dir == IF b.Wtomove THEN 1 ELSE -1
        startRank == IF b.Wtomove THEN 1 ELSE 6
        straight == {t \in Squares : Straight(x, t) /\ ClearLine(b, x, t) /\ t \notin our.All}
        diagonal == {t \in Squares : Diagonal(x, t) /\ ClearLine(b, x, t) /\ t \notin our.All}
        one == {t \in Squares : t = x + 8 * dir /\ t \notin Occupied(b)}
        two == {t \in Squares : /\ one /= {} /\ Rank(x) = startRank
                                /\ t = x + 16 * dir /\ t \notin Occupied(b)}
        takes == {t \in Squares : /\ Rank(t) = Rank(x) + dir /\ Abs(File(t) - File(x)) = 1
                                  /\ (t \in opp.All \/ (b.enpassant /= 0 /\ t = b.enpassant))}
    IN IF x \in our.Rooks THEN straight
       ELSE IF x \in our.Bishops THEN diagonal
       ELSE IF x \in our.Queens THEN straight \cup diagonal
       ELSE IF x \in our.Knights
            THEN {t \in Squares \ our.All : {Abs(File(t) - File(x)), Abs(Rank(t) - Rank(x))} = {1, 2}}
       ELSE IF x \in our.Pawns THEN one \cup two \cup takes
       ELSE {}

GeneratedTargets(b, x) == {To(m) : m \in {n \in Range(GenerateLegalMoves(b)) : From(n) = x}}
InCheck(b) == Attacked(b, b.Wtomove, KingSquare(b, b.Wtomove))

\* C5 as stated: the moves generated for a piece pinned on a file are exactly its natural
\* moves intersected with the pin line (the squares between king and pinner and the
\* pinner's square), whatever else holds of the position
C5_FilePinExactlyLine ==
    \A x \in Squares : \A r \in Squares :
        FilePinnedBy(board, x, r) =>
            GeneratedTargets(board, x) = NaturalTargets(board, x) \cap PinLine(board, r)

\* C5, amended: while the king of the side to move is not in check, the moves generated for
\* a piece pinned on a file are exactly its natural moves intersected with the pin line;
\* while the king is in check, no move is generated for the pinned piece
C5_FilePinExactlyLineUnlessInCheck ==
    \A x \in Squares : \A r \in Squares :
        FilePinnedBy(board, x, r) =>
            GeneratedTargets(board, x) =
                IF InCheck(board) THEN {} ELSE NaturalTargets(board, x) \cap PinLine(board, r)

\* a rook pinned on a file, the king not in check: it has moves, all of them on the file
C5_Witness ==
    \E x \in ourBitboards(board).Rooks : \E r \in Squares :
        /\ FilePinnedBy(board, x, r)
        /\ ~InCheck(board)
        /\ GeneratedTargets(board, x) /= {}
        /\ GeneratedTargets(board, x) /= NaturalTargets(board, x)
        /\ \A t \in GeneratedTargets(board, x) : File(t) = File(x)

(***************************************************************************)
(* C6  Hash transposition.                                                 *)
(***************************************************************************)
\* the moves made so far, read off the history
MovesMade(b) == [i \in 1..(Len(b.history) - 1) |-> b.history[i + 1].m]

\* e2e4 e7e5 g1f3   and   g1f3 e7e5 e2e4
TranspositionA ==
    <<MoveOf(SqAt(5, 2), SqAt(5, 4)), MoveOf(SqAt(5, 7), SqAt(5, 5)), MoveOf(SqAt(7, 1), SqAt(6, 3))>>
TranspositionB ==
    <<MoveOf(SqAt(7, 1), SqAt(6, 3)), MoveOf(SqAt(5, 7), SqAt(5, 5)), MoveOf(SqAt(5, 2), SqAt(5, 4))>>

SamePlacement(a, c) ==
    /\ a.White = c.White /\ a.Black = c.Black
    /\ a.Wtomove = c.Wtomove
    /\ a.castlerights = c.castlerights

\* C6 as stated: from the standard initial position, the board after e2e4 e7e5 g1f3 has the
\* Hash() of the board after g1f3 e7e5 e2e4
C6_TranspositionSameHash ==
    /\ MovesMade(board) = TranspositionA => Hash(board) = Hash(FromFen(Startpos, TranspositionB))
    /\ MovesMade(board) = TranspositionB => Hash(board) = Hash(FromFen(Startpos, TranspositionA))

\* C6, amended: the two boards agree on the pieces, the side to move and the castling
\* rights, but g1f3 e7e5 e2e4 ends with a double push and leaves the en-passant square e3,
\* which e2e4 e7e5 g1f3 has cleared; the two Hash() values differ, by exactly the
\* en-passant square folded into the hash
C6_TranspositionDiffersByEnPassant ==
    LET a == IF MovesMade(board) = TranspositionA THEN board ELSE FromFen(Startpos, TranspositionA)
        c == IF MovesMade(board) = TranspositionB THEN board ELSE FromFen(Startpos, TranspositionB)
    IN MovesMade(board) \in {TranspositionA, TranspositionB} =>
          /\ SamePlacement(a, c)
          /\ a.enpassant = 0 /\ c.enpassant = SqAt(5, 3)
          /\ Hash(a) /= Hash(c)
          /\ Xor(Hash(a), Hash(c)) = EpCode(c.enpassant)

\* g1f3 e7e5 e2e4 has just been played with Make
C6_Witness ==
    /\ last.op = "Make"
    /\ MovesMade(board) = TranspositionB
    /\ board.enpassant = SqAt(5, 3)

(***************************************************************************)
(* C3  Completeness (perft): the traversal from the standard initial       *)
(* position counts 20, 400, 8902, 197281 and 4865609 leaf nodes at depths  *)
(* 1, 2, 3, 4 and 5.                                                       *)
(***************************************************************************)
C3_Perft == walk.done => walk.nodes = PerftExpected[walk.n]

\* the traversal to depth 4 has ended with its 197281 leaf nodes counted, the board back at
\* the initial position
C3_Witness ==
    /\ walk.done /\ walk.n = 4
    /\ walk.nodes = 197281
    /\ SameObservableFields(board, Startpos)

(***************************************************************************)
(* C7  Repetition windowing.                                               *)
(***************************************************************************)
\* the indices of the history entries that a capture or a pawn move recorded
IrreversibleEntries(b) ==
    {j \in 1..(Len(b.history) - 1) :
        \/ b.history[j + 1].pieceType = Pawn
        \/ b.history[j + 1].capturedPieceType /= Nothing
        \/ b.history[j + 1].actuallyPerformedEpCapture}
MaxOf(S) == CHOOSE x \in S : \A y \in S : y <= x

\* the indices whose entry IsRepetition counts
CountedEntries(b) ==
    {i \in Range(repetitionScan(b)) : b.history[i + 1].hashCurrent = Hash(b)}

\* C7 as stated: IsRepetition compares the current hash only with entries recorded at or
\* after the most recent capture or pawn move, and counts no entry of a position that
\* existed before that move
C7_ScanFromIrreversibleEntry ==
    IrreversibleEntries(board) /= {} =>
        LET j == MaxOf(IrreversibleEntries(board))
        IN /\ \A i \in Range(repetitionScan(board)) : i >= j
           /\ \A i \in CountedEntries(board) : i >= j

\* C7, amended: the scan stops at irreversibleIdx, which Make sets to the index of the last
\* entry recorded before the capture or pawn move: IsRepetition compares the current hash
\* with no entry older than that one, which holds the position the irreversible move was
\* made from, and it counts no entry older than the one the irreversible move recorded
C7_ScanFromEntryBeforeIrreversible ==
    IrreversibleEntries(board) /= {} =>
        LET j == MaxOf(IrreversibleEntries(board))
        IN /\ \A i \in Range(repetitionScan(board)) : i >= j - 1
           /\ \A i \in CountedEntries(board) : i >= j

\* IsRepetition ran, in IsTerminated, one reversible move after a capture or pawn move: it
\* compared the entry recorded just before that move, and did not count it
C7_Witness ==
    /\ last.op = "IsTerminated" /\ ~last.ret
    /\ IrreversibleEntries(board) /= {}
    /\ LET j == MaxOf(IrreversibleEntries(board))
       IN /\ j = Len(board.history) - 2
          /\ j - 1 \in Range(repetitionScan(board))
          /\ j - 1 \notin CountedEntries(board)

(***************************************************************************)
(* C8  IsRepetition(n) is true when the current position has occurred n    *)
(* times or more among the same-side-to-move positions of the history, the *)
(* current occurrence included, for n = 1, 2, 3.                           *)
(***************************************************************************)
Occurrences(b) ==
    Cardinality({i \in 0..(Len(b.history) - 1) :
                    /\ (Len(b.history) - 1 - i) % 2 = 0
                    /\ b.history[i + 1].hashCurrent = Hash(b)})

C8_RepetitionAtLeast ==
    \A n \in 1..3 : Occurrences(board) >= n => IsRepetition(board, n)

(***************************************************************************)
(* C9  IsTerminated(0) on a board whose termination flag is None returns   *)
(* true and leaves Checkmate if the king of the side to move is attacked,  *)
(* Stalemate if it is not; with no legal move and the king attacked the    *)
(* board is never left reporting Stalemate.                                *)
(***************************************************************************)
C9_CheckmateOrStalemate ==
    (last.op = "IsTerminated" /\ last.arg = 0) =>
        /\ Termination(last.before[1]) = TerminationNone =>
              /\ last.ret
              /\ Termination(board) = IF InCheck(board) THEN TerminationCheckmate
                                      ELSE TerminationStalemate
        /\ InCheck(board) => Termination(board) /= TerminationStalemate

\* IsTerminated(0) has just reported a checkmate
C9_Witness ==
    /\ last.op = "IsTerminated" /\ last.arg = 0 /\ last.ret
    /\ Termination(last.before[1]) = TerminationNone
    /\ InCheck(board)
    /\ Termination(board) = TerminationCheckmate

\* IsTerminated(0) has just reported a stalemate
StalemateReported ==
    /\ last.op = "IsTerminated" /\ last.arg = 0 /\ last.ret
    /\ Termination(last.before[1]) = TerminationNone
    /\ ~InCheck(board)
    /\ Termination(board) = TerminationStalemate

(***************************************************************************)
(* C10  With Halfmoveclock >= 100 IsTerminated(moveCount) returns true,    *)
(* and for moveCount > 0 leaves the fifty-move rule as the termination;    *)
(* with Halfmoveclock < 100, on a board whose flag was None, it does not   *)
(* leave the fifty-move rule.                                              *)
(***************************************************************************)
C10_FiftyMoveRule ==
    last.op = "IsTerminated" =>
        /\ last.before[1].Halfmoveclock >= 100 =>
              /\ last.ret
              /\ last.arg > 0 => Termination(board) = TerminationFiftyMovesRule
        /\ (last.before[1].Halfmoveclock < 100 /\ Termination(last.before[1]) = TerminationNone) =>
              Termination(board) /= TerminationFiftyMovesRule

\* IsTerminated has just reported the fifty-move rule at a halfmove clock of exactly 100,
\* with legal moves left
C10_Witness ==
    /\ last.op = "IsTerminated" /\ last.ret /\ last.arg > 0
    /\ last.before[1].Halfmoveclock = 100
    /\ Termination(last.before[1]) = TerminationNone
    /\ Termination(board) = TerminationFiftyMovesRule

\* at a halfmove clock of 99 IsTerminated returns false
BelowHundredNotReported ==
    /\ last.op = "IsTerminated" /\ ~last.ret
    /\ last.before[1].Halfmoveclock = 99


(***************************************************************************)
(* IsInsufficientMaterial as a function of the material on the board: the  *)
(* boards are drawn from every combination of up to MaxMinor bishops and   *)
(* MaxMinor knights per side, with or without one pawn, rook or queen.     *)
(***************************************************************************)
MaxMinor == 2

\* c1 f1 c4, b1 g1 f3, the extra piece on d2 and the king on a1
WhiteBishopSquares == <<SqAt(3, 1), SqAt(6, 1), SqAt(3, 4)>>
WhiteKnightSquares == <<SqAt(2, 1), SqAt(7, 1), SqAt(6, 3)>>
\* c8 f8 c5, b8 g8 f6, the extra piece on d7 and the king on h8
BlackBishopSquares == <<SqAt(3, 8), SqAt(6, 8), SqAt(3, 5)>>
BlackKnightSquares == <<SqAt(2, 8), SqAt(7, 8), SqAt(6, 6)>>

FirstOf(squares, n) == {squares[k] : k \in 1..n}

\* the bitboards of a king, nb bishops, nk knights and one extra piece of type heavy (or none)
MaterialOf(king, bishops, knights, heavySquare, nb, nk, heavy) ==
    Bitboards(IF heavy = Pawn THEN {heavySquare} ELSE {},
              FirstOf(knights, nk), FirstOf(bishops, nb),
              IF heavy = Rook THEN {heavySquare} ELSE {},
              IF heavy = Queen THEN {heavySquare} ELSE {},
              {king})

MaterialBoards ==
    {ParseFen(MaterialOf(SqAt(1, 1), WhiteBishopSquares, WhiteKnightSquares, SqAt(4, 2),
                         w[1], w[2], w[3]),
              MaterialOf(SqAt(8, 8), BlackBishopSquares, BlackKnightSquares, SqAt(4, 7),
                         k[1], k[2], k[3]),
              TRUE, 0, 0, 0, 1) :
        w \in (0..MaxMinor) \X (0..MaxMinor) \X {Nothing, Pawn, Rook, Queen},
        k \in (0..MaxMinor) \X (0..MaxMinor) \X {Nothing, Pawn, Rook, Queen}}

InitMaterial ==
    /\ board \in MaterialBoards
    /\ ply = 0
    /\ last = NoCall
    /\ walk = NoWalk

\* b.IsInsufficientMaterial()
DoIsInsufficientMaterial ==
    /\ \E r \in {IsInsufficientMaterial(board)} :
          /\ board' = r.b
          /\ last' = [op |-> "IsInsufficientMaterial", arg |-> 0, ret |-> r.ret,
                      before |-> <<board>>]
    /\ UNCHANGED <<ply, walk>>

NextMaterial == DoIsInsufficientMaterial

SpecMaterial == InitMaterial /\ [][NextMaterial]_vars

NoPawnRookQueen(b) ==
    b.White.Pawns \cup b.White.Rooks \cup b.White.Queens
      \cup b.Black.Pawns \cup b.Black.Rooks \cup b.Black.Queens = {}

AtMostOneBishopAndOneKnight(bbs) ==
    Cardinality(bbs.Bishops) <= 1 /\ Cardinality(bbs.Knights) <= 1

\* C11: IsInsufficientMaterial returns true exactly when neither side has a pawn, rook or
\* queen and each of the two sides has at most one bishop and at most one knight; with any
\* pawn, rook or queen on the board it returns false.
C11_InsufficientMaterialExactly ==
    last.op = "IsInsufficientMaterial" =>
        (last.ret <=> (/\ NoPawnRookQueen(last.before[1])
                       /\ AtMostOneBishopAndOneKnight(last.before[1].White)
                       /\ AtMostOneBishopAndOneKnight(last.before[1].Black)))


(***************************************************************************)
(* IsTerminated on positions where several termination conditions hold.    *)
(***************************************************************************)
\* 8/8/8/8/8/4k3/8/r3K3 w - - 100 60
PosCheckmateFifty ==
    ParseFen(Bitboards({}, {}, {}, {}, {}, {SqAt(5, 1)}),
             Bitboards({}, {}, {}, {SqAt(1, 1)}, {}, {SqAt(5, 3)}),
             TRUE, 0, 0, 100, 60)

\* 7k/5K2/6B1/8/8/8/8/8 b - - 0 1
PosStalemateInsufficient ==
    ParseFen(Bitboards({}, {}, {SqAt(7, 6)}, {}, {}, {SqAt(6, 7)}),
             Bitboards({}, {}, {}, {}, {}, {SqAt(8, 8)}),
             FALSE, 0, 0, 0, 1)

\* 4k3/8/8/5KB1/8/8/8/8 w - - 0 1
PosInsufficient ==
    ParseFen(Bitboards({}, {}, {SqAt(7, 5)}, {}, {}, {SqAt(6, 5)}),
             Bitboards({}, {}, {}, {}, {}, {SqAt(5, 8)}),
             TRUE, 0, 0, 0, 1)

TerminationBoards ==
    {PosCheckmate, PosStalemate, PosFifty(100), PosInsufficient, PosCheckmateFifty,
     PosStalemateInsufficient}

InitTermination ==
    /\ board \in TerminationBoards
    /\ ply = 0
    /\ last = NoCall
    /\ walk = NoWalk

SpecTermination == InitTermination /\ [][Next]_vars

\* Termination values are sets of flags: t & flag != 0
HasFlag(t, flag) == (t \div flag) % 2 = 1

\* the termination conditions that hold for the position b, with moveCount legal moves
ConditionsHolding(b, moveCount) ==
    (IF moveCount = 0 /\ InCheck(b) THEN {TerminationCheckmate} ELSE {})
    \cup (IF moveCount = 0 /\ ~InCheck(b) THEN {TerminationStalemate} ELSE {})
    \cup (IF b.Halfmoveclock >= 100 THEN {TerminationFiftyMovesRule} ELSE {})
    \cup (IF IsInsufficientMaterial(b).ret THEN {TerminationInsufficientMaterial} ELSE {})

\* C12: after IsTerminated(moveCount), Termination() contains every termination condition
\* that holds for the position: when two hold at once, both are reported.
C12_TerminationsCombine ==
    (last.op = "IsTerminated" /\ Termination(last.before[1]) = TerminationNone) =>
        \A flag \in ConditionsHolding(last.before[1], last.arg) :
            HasFlag(Termination(board), flag)


(***************************************************************************)
(* C13  Undo() on a board whose history holds only the root entry changes  *)
(* nothing: every field of the board, the history included, is what it was *)
(* before the call, and no sequence of calls that ends in further Undo     *)
(* calls takes the root entry off the history.                             *)
(***************************************************************************)
C13_UndoAtRootIsNoOp ==
    /\ [](Len(board.history) >= 1)
    /\ [][(last'.op = "Undo" /\ Len(board.history) = 1) => (last'.ret /\ board' = board)]_vars

\* Undo has just returned at its guard, on a board whose history holds the root entry only
C13_Witness ==
    /\ last.op = "Undo" /\ last.ret
    /\ Len(board.history) = 1
    /\ board.termination = TerminationNone
    /\ board \in InitialBoards


(***************************************************************************)
(* The Board under all four mutating calls: Make, Undo, MakeNullMove and   *)
(* UndoNullMove. A move is undone by the call that belongs to it ("must be *)
(* undone with UndoNullMove()"); either undo call may also come when there *)
(* is nothing to undo.                                                     *)
(***************************************************************************)
\* b.MakeNullMove()
DoMakeNullMove ==
    /\ ply < MaxPly
    /\ board' = MakeNullMove(board)
    /\ ply' = ply + 1
    /\ last' = [op |-> "MakeNullMove", arg |-> 0, ret |-> FALSE, before |-> <<board>>]
    /\ UNCHANGED walk

\* b.UndoNullMove(), called to undo a MakeNullMove or with nothing left to undo (a history
\* that holds the root entry only, or no entry); ret records that the call returned at
\* its guard
DoUndoNullMove ==
    /\ Len(board.history) > 0 => IsNullMoveEntry(board.history[Len(board.history)])
    /\ board' = UndoNullMove(board)
    /\ ply' = IF ply > 0 THEN ply - 1 ELSE 0
    /\ last' = [op |-> "UndoNullMove", arg |-> 0, ret |-> Len(board.history) = 0,
                before |-> <<board>>]
    /\ UNCHANGED walk

NextNull == DoMake \/ DoUndo \/ DoMakeNullMove \/ DoUndoNullMove

SpecNull == Init /\ [][NextNull]_vars

\* what MakeNullMove may not touch
SameBeyondNullMove(a, c) ==
    /\ a.White = c.White /\ a.Black = c.Black
    /\ a.castlerights = c.castlerights
    /\ a.Halfmoveclock = c.Halfmoveclock
    /\ a.Fullmoveno = c.Fullmoveno
    /\ a.irreversibleIdx = c.irreversibleIdx
    /\ a.termination = c.termination

\* what UndoNullMove has to bring back
SameNullMoveFields(a, c) ==
    /\ a.Wtomove = c.Wtomove
    /\ a.enpassant = c.enpassant
    /\ a.hash = c.hash
    /\ Len(a.history) = Len(c.history)

(***************************************************************************)
(* C14  MakeNullMove flips the side to move, sets the en-passant square to *)
(* 0, pushes exactly one history entry and changes the hash; bitboards,    *)
(* castling rights, halfmove clock and fullmove number stay. UndoNullMove  *)
(* on the entry of a MakeNullMove brings side to move, en-passant square,  *)
(* hash and history length back, and so do two UndoNullMove calls after    *)
(* two MakeNullMove calls.                                                 *)
(***************************************************************************)
C14_NullMoveFrame ==
    /\ last.op = "MakeNullMove" =>
          /\ SameBeyondNullMove(board, last.before[1])
          /\ board.Wtomove = ~last.before[1].Wtomove
          /\ board.enpassant = 0
          /\ board.history = Append(last.before[1].history, board.history[Len(board.history)])
          /\ board.hash /= last.before[1].hash
    /\ \E once \in {MakeNullMove(board)} :
          /\ SameNullMoveFields(UndoNullMove(once), board)
          /\ SameBeyondNullMove(UndoNullMove(once), board)
          /\ \E twice \in {MakeNullMove(once)} :
                /\ SameNullMoveFields(UndoNullMove(twice), once)
                /\ SameNullMoveFields(UndoNullMove(UndoNullMove(twice)), board)
    /\ (last.op = "UndoNullMove" /\ Len(last.before[1].history) > 0
          /\ IsNullMoveEntry(last.before[1].history[Len(last.before[1].history)])) =>
          /\ SameBeyondNullMove(board, last.before[1])
          /\ board.Wtomove = ~last.before[1].Wtomove
          /\ Len(board.history) = Len(last.before[1].history) - 1

\* UndoNullMove has just undone a MakeNullMove that had cleared an en-passant square: the
\* square is back
C14_Witness ==
    /\ last.op = "UndoNullMove"
    /\ Len(last.before[1].history) = 2
    /\ IsNullMoveEntry(last.before[1].history[2])
    /\ last.before[1].enpassant = 0
    /\ board.enpassant /= 0
    /\ board \in InitialBoards


(***************************************************************************)
(* Clone.  A *uint64 of a history entry is modelled by the side and field  *)
(* it points to, inside the Board whose Make has taken the address.  Clone *)
(* builds a new Board and copies the history entries as they are, so the   *)
(* pointers of the copied entries still point into the Board that was      *)
(* cloned.  The model keeps the Bitboards of that Board beside the clone,  *)
(* as OriginalWhite and OriginalBlack, and the copied pointers name them.  *)
(***************************************************************************)
pointsIntoOriginal(ptr) ==
    IF ptr = NilPtr THEN ptr
    ELSE PtrTo(IF ptr.side = "White" THEN "OriginalWhite" ELSE "OriginalBlack", ptr.field)

\* copy(history, b.history): the entry, field by field
copiedEntry(u) ==
    [u EXCEPT !.capturedBitboard = pointsIntoOriginal(@),
              !.destTypeBitboard = pointsIntoOriginal(@),
              !.pieceTypeBitboard = pointsIntoOriginal(@)]

Clone(b) ==
    [Wtomove |-> b.Wtomove, enpassant |-> b.enpassant, castlerights |-> b.castlerights,
     Halfmoveclock |-> b.Halfmoveclock, Fullmoveno |-> b.Fullmoveno,
     White |-> b.White, Black |-> b.Black, hash |-> b.hash,
     history |-> [i \in 1..Len(b.history) |-> copiedEntry(b.history[i])],
     termination |-> b.termination, irreversibleIdx |-> b.irreversibleIdx,
     OriginalWhite |-> b.White, OriginalBlack |-> b.Black]

IsClone(b) == "OriginalWhite" \in DOMAIN b

\* c := b.Clone(); from here on the calls are made on c
DoClone ==
    /\ ~IsClone(board)
    /\ board' = Clone(board)
    /\ last' = [op |-> "Clone", arg |-> 0, ret |-> FALSE, before |-> <<board>>]
    /\ UNCHANGED <<ply, walk>>

\* c.Undo(); ply, which bounds the calls of Make, stays: the model counts every Make on the
\* clone, undone or not
DoUndoOnClone ==
    /\ IsClone(board)
    /\ Len(board.history) > 1 => ~IsNullMoveEntry(board.history[Len(board.history)])
    /\ board' = Undo(board)
    /\ last' = [op |-> "Undo", arg |-> 0, ret |-> Len(board.history) <= 1, before |-> <<>>]
    /\ UNCHANGED <<ply, walk>>

DoUndoBeforeClone == ~IsClone(board) /\ DoUndo

NextClone == DoMake \/ DoUndoBeforeClone \/ DoClone \/ DoUndoOnClone

SpecClone == Init /\ [][NextClone]_vars

\* C15: a Board returned by Clone is independent of the original: no Make and no Undo on
\* the clone, the Undo of moves made on the original before cloning included, changes the
\* original's bitboards, and the clone goes through the states the original would go
\* through under the same calls.
C15_CloneIndependent ==
    [][(IsClone(board) /\ IsClone(board')) =>
          /\ board'.OriginalWhite = board.OriginalWhite
          /\ board'.OriginalBlack = board.OriginalBlack
          /\ (last'.op = "Undo" /\ Len(board.history) > 1) =>
                \E c \in {Undo(board)} :
                   /\ board'.White = c.White /\ board'.Black = c.Black
                   /\ board'.Wtomove = c.Wtomove /\ board'.hash = c.hash]_vars


(***************************************************************************)
(* C16  After any sequence of Make, Undo, MakeNullMove and UndoNullMove    *)
(* the hash the board maintains equals the hash composed from piece        *)
(* placement, side to move, castling rights and en-passant square (so two  *)
(* boards that agree on the four have equal hashes, and the two counters   *)
(* have no influence).                                                     *)
(***************************************************************************)
C16_HashIsRecomputed == Hash(board) = recomputeBoardHash(board)


\* the history still starts with the entry the construction of the board has put there
RootEntryKept(b) ==
    /\ Len(b.history) >= 1
    /\ IsNullMoveEntry(b.history[1])
    /\ b.history[1].hashCurrent /= {}

HashIsRecomputedFromRoot == RootEntryKept(board) => Hash(board) = recomputeBoardHash(board)


(***************************************************************************)
(* The generator asked for the moves of one piece type.                    *)
(***************************************************************************)
\* moves := b.GenerateMovesForPiece(piece)
DoGenerateMovesForPiece ==
    /\ ourBitboards(board).Kings /= {}
    /\ \E piece \in Nothing..King :
          /\ board' = GenerateMovesForPieceBoard(board, piece)
          /\ last' = [op |-> "GenerateMovesForPiece", arg |-> piece,
                      ret |-> GenerateMovesForPiece(board, piece), before |-> <<board>>]
    /\ UNCHANGED <<ply, walk>>

NextGenerate == DoMake \/ DoUndo \/ DoGenerateMovesForPiece

SpecGenerate == Init /\ [][NextGenerate]_vars

\* the type of the piece of the side to move on square sq
MoverTypeAt(b, sq) == determinePieceType(b, ourSide(b.Wtomove), Bit(sq)).pieceType

\* C17: GenerateMovesForPiece(p), for p from Pawn to King, returns exactly the moves of
\* GenerateLegalMoves() whose origin square holds a piece of type p, and no move of another
\* piece type, in check or not, with pieces pinned or not; GenerateMovesForPiece(Nothing)
\* returns the moves of GenerateLegalMoves().
C17_MovesForPieceExactly ==
    last.op = "GenerateMovesForPiece" =>
        Range(last.ret) = IF last.arg = Nothing THEN LegalMoves
                          ELSE {m \in LegalMoves : MoverTypeAt(board, From(m)) = last.arg}


PieceMasks(bbs) == <<bbs.Pawns, bbs.Knights, bbs.Bishops, bbs.Rooks, bbs.Queens, bbs.Kings>>

AllIsUnion(bbs) == bbs.All = UNION Range(PieceMasks(bbs))

\* the twelve piece masks of both sides, pairwise: no square in two of them
PairwiseDisjoint(b) ==
    \E masks \in {PieceMasks(b.White) \o PieceMasks(b.Black)} :
        \A i \in 1..12 : \A j \in 1..12 : i /= j => masks[i] \cap masks[j] = {}

OneKingEach(b) == Cardinality(b.White.Kings) = 1 /\ Cardinality(b.Black.Kings) = 1

(***************************************************************************)
(* C18  In every state reached by Make (on generated moves), Undo,         *)
(* MakeNullMove and UndoNullMove each side's All mask is the union of its  *)
(* six piece masks, the twelve piece masks are pairwise disjoint, and each *)
(* side has exactly one king.                                              *)
(***************************************************************************)
C18_BitboardInvariants ==
    /\ AllIsUnion(board.White) /\ AllIsUnion(board.Black)
    /\ PairwiseDisjoint(board)
    /\ OneKingEach(board)

\* a Make that is still on the history has taken a king
KingCaptureOnHistory(b) ==
    \E i \in 1..Len(b.history) : b.history[i].capturedPieceType = King

\* the history holds the root entry and, above it, entries of Make only
OnlyMovesOnHistory(b) ==
    /\ RootEntryKept(b)
    /\ \A i \in 2..Len(b.history) : ~IsNullMoveEntry(b.history[i])

\* What holds also where a null-move call has passed the turn of a side in check: in
\* every state reached by Make, Undo, MakeNullMove and UndoNullMove the All masks
\* are the unions, the twelve piece masks are pairwise disjoint and each side has at most
\* one king; each side has exactly one king unless a Make still on the history has captured
\* a king, and always when the history holds only the root entry and entries of Make.
MasksAlwaysKingsUnlessCaptured ==
    /\ AllIsUnion(board.White) /\ AllIsUnion(board.Black)
    /\ PairwiseDisjoint(board)
    /\ Cardinality(board.White.Kings) <= 1 /\ Cardinality(board.Black.Kings) <= 1
    /\ ~KingCaptureOnHistory(board) => OneKingEach(board)
    /\ OnlyMovesOnHistory(board) => OneKingEach(board)

\* Make has just captured a piece that is not a king, after a MakeNullMove that is still on
\* the history
CaptureAfterNullMove ==
    /\ last.op = "Make"
    /\ Len(board.history) = 3
    /\ IsNullMoveEntry(board.history[2])
    /\ board.history[3].capturedPieceType \notin {Nothing, King}
    /\ OneKingEach(board)

\* Make has just captured the king of a side that was in check when MakeNullMove passed
\* its turn
KingCaptured ==
    /\ last.op = "Make"
    /\ board.history[Len(board.history)].capturedPieceType = King
    /\ ~OneKingEach(board)


\* m moves a pawn of the side to move two squares along its file
IsDoublePush(b, m) ==
    /\ MoverTypeAt(b, From(m)) = Pawn
    /\ File(To(m)) = File(From(m))
    /\ Abs(Rank(To(m)) - Rank(From(m))) = 2

\* the square between the origin and the destination of a double push
SkippedSquare(m) == (From(m) + To(m)) \div 2

(***************************************************************************)
(* C19  After Make(m) the en-passant square is nonzero exactly when m was  *)
(* a two-square pawn push, and then it is the square the pawn skipped;     *)
(* after every other move (captures, castling, promotions and en-passant   *)
(* captures among them) it is 0.                                           *)
(***************************************************************************)
C19_EnPassantSquare ==
    last.op = "Make" =>
        /\ board.enpassant /= 0 <=> IsDoublePush(last.before[1], last.arg)
        /\ IsDoublePush(last.before[1], last.arg) =>
              /\ board.enpassant = SkippedSquare(last.arg)
              /\ Abs(board.enpassant - To(last.arg)) = 8
              /\ board.enpassant \notin Occupied(board)

\* Make has just made an en-passant capture: the square it was made on is cleared
EnPassantCaptureClears ==
    /\ last.op = "Make"
    /\ IsEnPassantCapture(last.before[1], last.arg)
    /\ last.before[1].enpassant /= 0
    /\ board.enpassant = 0

\* Make has just made a double push: the en-passant square is the skipped square
C19_Witness ==
    /\ last.op = "Make"
    /\ IsDoublePush(last.before[1], last.arg)
    /\ board.enpassant = SkippedSquare(last.arg)
    /\ board.enpassant /= 0


\* the castling rights held, by their bit in castlerights: 0 and 1 are White's queenside
\* and kingside right, 2 and 3 are Black's
RightsHeld(b) == {k \in 0..3 : BitOf(b.castlerights, k) = 1}

\* the rights Make(m) on b has to clear according to C20
RightsToClear(b, m) ==
    LET ours == IF b.Wtomove THEN 0 ELSE 2
        theirs == IF b.Wtomove THEN 2 ELSE 0
        ourRank == IF b.Wtomove THEN 0 ELSE 7
        theirRank == IF b.Wtomove THEN 7 ELSE 0
        moved == MoverTypeAt(b, From(m))
        captured == determinePieceType(b, oppSide(b.Wtomove), Bit(To(m))).pieceType
    IN (IF moved = King THEN {ours, ours + 1} ELSE {})
       \cup (IF moved = Rook /\ From(m) = Sq(0, ourRank) THEN {ours} ELSE {})
       \cup (IF moved = Rook /\ From(m) = Sq(7, ourRank) THEN {ours + 1} ELSE {})
       \cup (IF captured = Rook /\ To(m) = Sq(0, theirRank) THEN {theirs} ELSE {})
       \cup (IF captured = Rook /\ To(m) = Sq(7, theirRank) THEN {theirs + 1} ELSE {})

(***************************************************************************)
(* C20  Make clears both rights of the mover when its king moves, the      *)
(* matching right when a rook of the mover leaves its corner, and the      *)
(* opponent's matching right when an opponent rook is captured on its      *)
(* corner; it changes no other right and sets none, so the rights held     *)
(* after Make are a subset of those held before.                           *)
(***************************************************************************)
C20_CastlingRightsOnlyShrink ==
    last.op = "Make" =>
        /\ RightsHeld(board) = RightsHeld(last.before[1]) \ RightsToClear(last.before[1], last.arg)
        /\ RightsHeld(board) \subseteq RightsHeld(last.before[1])

\* Make has just captured a rook on its corner with a rook that left its own corner: the
\* right of each side that belonged to the corner is gone, the other two are still held
C20_Witness ==
    /\ last.op = "Make"
    /\ RightsHeld(last.before[1]) = {0, 1, 2, 3}
    /\ MoverTypeAt(last.before[1], From(last.arg)) = Rook
    /\ To(last.arg) \in oppBitboards(last.before[1]).Rooks
    /\ Cardinality(RightsToClear(last.before[1], last.arg)) = 2
    /\ Cardinality(RightsHeld(board)) = 2

\* Make has just moved a king that held both rights: both are gone
KingMoveClearsBoth ==
    /\ last.op = "Make"
    /\ MoverTypeAt(last.before[1], From(last.arg)) = King
    /\ Cardinality(RightsHeld(last.before[1])) = 4
    /\ Cardinality(RightsHeld(board)) = 2


\* m takes a piece of the opponent: one standing on its destination, or a pawn en passant
TakesPiece(b, m) == To(m) \in oppBitboards(b).All \/ IsEnPassantCapture(b, m)

(***************************************************************************)
(* C21  Make sets the halfmove clock to 0 on every capture (en-passant     *)
(* captures among them) and on every pawn move, and to its previous value  *)
(* plus one on every other move; the fullmove number grows by exactly one  *)
(* on each move of Black and stays on each move of White.                  *)
(***************************************************************************)
C21_Clocks ==
    last.op = "Make" =>
        \E b \in {last.before[1]} :
           /\ board.Halfmoveclock =
                 IF TakesPiece(b, last.arg) \/ MoverTypeAt(b, From(last.arg)) = Pawn
                 THEN 0 ELSE b.Halfmoveclock + 1
           /\ board.Fullmoveno = IF b.Wtomove THEN b.Fullmoveno ELSE b.Fullmoveno + 1

\* Make has just made a capture by a piece that is no pawn, for Black, with the clock
\* running: the clock is back at 0 and the fullmove number is one higher
C21_Witness ==
    /\ last.op = "Make"
    /\ ~last.before[1].Wtomove
    /\ last.before[1].Halfmoveclock > 0
    /\ MoverTypeAt(last.before[1], From(last.arg)) \notin {Pawn, Nothing}
    /\ To(last.arg) \in oppBitboards(last.before[1]).All
    /\ board.Halfmoveclock = 0
    /\ board.Fullmoveno = last.before[1].Fullmoveno + 1

\* Make has just made a move that neither captures nor moves a pawn: the clock went up
ClockCounts ==
    /\ last.op = "Make"
    /\ ~TakesPiece(last.before[1], last.arg)
    /\ MoverTypeAt(last.before[1], From(last.arg)) /= Pawn
    /\ board.Halfmoveclock = last.before[1].Halfmoveclock + 1


\* the squares of the pieces of the given side that attack the square
AttackersOf(b, byBlack, sq) ==
    LET enemy == IF byBlack THEN b.Black ELSE b.White
    IN {p \in enemy.Pawns : /\ Abs(File(p) - File(sq)) = 1
                            /\ Rank(sq) - Rank(p) = (IF byBlack THEN -1 ELSE 1)}
       \cup {p \in enemy.Knights : {Abs(File(p) - File(sq)), Abs(Rank(p) - Rank(sq))} = {1, 2}}
       \cup {p \in enemy.Kings : Distance(p, sq) = 1}
       \cup {p \in enemy.Rooks \cup enemy.Queens : Straight(p, sq) /\ ClearLine(b, p, sq)}
       \cup {p \in enemy.Bishops \cup enemy.Queens : Diagonal(p, sq) /\ ClearLine(b, p, sq)}

\* the pieces that give check to the side to move
Checkers(b) == AttackersOf(b, b.Wtomove, KingSquare(b, b.Wtomove))

\* the board with the king of the side to move taken out of the occupancy
WithoutOurKing(b) ==
    IF b.Wtomove
    THEN [b EXCEPT !.White.Kings = {}, !.White.All = @ \ b.White.Kings]
    ELSE [b EXCEPT !.Black.Kings = {}, !.Black.All = @ \ b.Black.Kings]

\* the squares next to the king that a checking rook, bishop or queen attacks through the
\* king's square
BehindKing(b) ==
    {t \in Squares : /\ Distance(t, KingSquare(b, b.Wtomove)) = 1
                     /\ ~Attacked(b, b.Wtomove, t)
                     /\ Attacked(WithoutOurKing(b), b.Wtomove, t)}

(***************************************************************************)
(* C22  Double check: when two or more enemy pieces attack the king of the *)
(* side to move, every move of GenerateLegalMoves moves the king by one    *)
(* square, to a square that holds no own piece and that no enemy piece     *)
(* attacks once the king is taken out of the occupancy (so not to a square *)
(* behind the king on a checking slider's line); no castling move and no   *)
(* move of another piece is returned.                                      *)
(***************************************************************************)
C22_DoubleCheck ==
    (ourBitboards(board).Kings /= {} /\ Cardinality(Checkers(board)) >= 2) =>
        \A m \in LegalMoves :
            /\ From(m) = KingSquare(board, board.Wtomove)
            /\ Distance(From(m), To(m)) = 1
            /\ Promote(m) = Nothing
            /\ To(m) \notin ourBitboards(board).All
            /\ ~Attacked(WithoutOurKing(board), board.Wtomove, To(m))
            /\ To(m) \notin BehindKing(board)
            /\ ~IsCastlingMove(board, m)

\* Make has just made a move generated in double check, on a board where a square next
\* to the king lies behind it on the line of a checking rook
C22_Witness ==
    /\ last.op = "Make"
    /\ Cardinality(Checkers(last.before[1])) >= 2
    /\ BehindKing(last.before[1]) \ Occupied(last.before[1]) /= {}
    /\ From(last.arg) = KingSquare(last.before[1], last.before[1].Wtomove)
    /\ Distance(From(last.arg), To(last.arg)) = 1


\* with one piece giving check: its square and, for a rook, bishop or queen, the squares
\* between it and the king
BlockSquares(b) ==
    UNION {{c} \cup (IF c \in oppBitboards(b).Knights \cup oppBitboards(b).Pawns THEN {}
                     ELSE StrictlyBetween(c, KingSquare(b, b.Wtomove))) : c \in Checkers(b)}

\* exactly one piece gives check to the side to move
SingleCheck(b) == ourBitboards(b).Kings /= {} /\ Cardinality(Checkers(b)) = 1

(***************************************************************************)
(* C23  Single check: when exactly one enemy piece attacks the king of the *)
(* side to move, every generated move of a piece other than the king, be   *)
(* the piece pinned or not, goes to the checking piece's square or, when a *)
(* rook, bishop or queen gives the check, to a square between it and the   *)
(* king; and no castling move is generated.                                *)
(***************************************************************************)
C23_SingleCheck ==
    SingleCheck(board) =>
        \A m \in LegalMoves :
            /\ From(m) /= KingSquare(board, board.Wtomove) => To(m) \in BlockSquares(board)
            /\ ~IsCastlingMove(board, m)


(***************************************************************************)
(* C23, amended: in single check every generated move of a piece other     *)
(* than the king goes to the checking piece's square or to a square        *)
(* between a checking rook, bishop or queen and the king, or it is a       *)
(* pawn's capture onto the en-passant square; and no castling move is      *)
(* generated.                                                              *)
(***************************************************************************)
C23_SingleCheckOrEnPassant ==
    SingleCheck(board) =>
        \A m \in LegalMoves :
            /\ From(m) /= KingSquare(board, board.Wtomove) =>
                  To(m) \in BlockSquares(board) \/ IsEnPassantCapture(board, m)
            /\ ~IsCastlingMove(board, m)

\* Make has just made an en-passant capture generated in single check: it took the pawn
\* that gave the check, on a square that is not the one it went to
C23_Witness ==
    /\ last.op = "Make"
    /\ SingleCheck(last.before[1])
    /\ IsEnPassantCapture(last.before[1], last.arg)
    /\ To(last.arg) \notin BlockSquares(last.before[1])
    /\ Checkers(last.before[1]) \subseteq oppBitboards(last.before[1]).Pawns
    /\ Checkers(last.before[1]) \cap Occupied(board) = {}
    /\ Checkers(board) = {}

\* Make has just made a move of a piece other than the king that was generated in single
\* check: it took the checking piece or went between it and the king
CheckAnswered ==
    /\ last.op = "Make"
    /\ SingleCheck(last.before[1])
    /\ From(last.arg) /= KingSquare(last.before[1], last.before[1].Wtomove)
    /\ To(last.arg) \in BlockSquares(last.before[1])


\* the farthest rank of the side to move
FarthestRank(b) == IF b.Wtomove THEN 7 ELSE 0

\* how often the move occurs in the list
TimesIn(moves, m) == Cardinality({i \in DOMAIN moves : moves[i] = m})

(***************************************************************************)
(* C24  Promotion: every generated pawn move (a push or a capture, by a    *)
(* pinned or an unpinned pawn) to the mover's farthest rank occurs exactly *)
(* four times in the list, once with each of queen, rook, bishop and       *)
(* knight as promotion piece, and never without one; no generated move to  *)
(* another rank or by another piece carries a promotion piece.             *)
(***************************************************************************)
C24_Promotion ==
    ourBitboards(board).Kings /= {} =>
        \E moves \in {GenerateLegalMoves(board)} :
           \A i \in DOMAIN moves :
              IF /\ MoverTypeAt(board, From(moves[i])) = Pawn
                 /\ Rank(To(moves[i])) = FarthestRank(board)
              THEN /\ Promote(moves[i]) \in {Knight, Bishop, Rook, Queen}
                   /\ \A p \in {Knight, Bishop, Rook, Queen} :
                         TimesIn(moves, Setpromote(MoveOf(From(moves[i]), To(moves[i])), p)) = 1
                   /\ TimesIn(moves, MoveOf(From(moves[i]), To(moves[i]))) = 0
              ELSE Promote(moves[i]) = Nothing

\* Make has just made a promotion to a rook by a pinned pawn, which took the bishop that
\* pinned it
C24_Witness ==
    /\ last.op = "Make"
    /\ Promote(last.arg) = Rook
    /\ To(last.arg) \in oppBitboards(last.before[1]).Bishops
    /\ From(last.arg) \in StrictlyBetween(To(last.arg), KingSquare(last.before[1], last.before[1].Wtomove))
    /\ To(last.arg) \in oppBitboards(board).Rooks
    /\ oppBitboards(board).Pawns = {}

\* Make has just made a promotion by a push of a pawn that was not pinned
PromotedByPush ==
    /\ last.op = "Make"
    /\ Promote(last.arg) = Knight
    /\ File(From(last.arg)) = File(To(last.arg))
    /\ To(last.arg) \in oppBitboards(board).Knights


\* a pawn of the side to move stands where it could capture onto the en-passant square
EnPassantCandidates(b) ==
    {p \in ourBitboards(b).Pawns :
        /\ b.enpassant /= 0
        /\ Abs(File(p) - File(b.enpassant)) = 1
        /\ Rank(b.enpassant) - Rank(p) = (IF b.Wtomove THEN 1 ELSE -1)}

(***************************************************************************)
(* C25  GenerateLegalMoves and GenerateMovesForPiece leave the Board as    *)
(* they found it: when the call returns, every bitboard (the mover's Kings *)
(* and All masks, written during the king-move tests, and both sides'      *)
(* Pawns and All masks, written during the en-passant tests, among them),  *)
(* the side to move, the castling rights, the en-passant square, the       *)
(* counters, the hash and the history are what they were before the call,  *)
(* in check or not, with an en-passant capture accepted or rejected.       *)
(***************************************************************************)
C25_GeneratorsRestoreBoard ==
    ourBitboards(board).Kings /= {} =>
        \A piece \in Nothing..King : GenerateMovesForPieceBoard(board, piece) = board

\* GenerateLegalMoves has just returned on a board where it tried an en-passant capture
\* and rejected it, and tested the king's moves: the board is the board before the call
C25_Witness ==
    /\ last.op = "GenerateMovesForPiece" /\ last.arg = Nothing
    /\ \E p \in EnPassantCandidates(board) : MoveOf(p, board.enpassant) \notin Range(last.ret)
    /\ \E i \in DOMAIN last.ret : From(last.ret[i]) = KingSquare(board, board.Wtomove)
    /\ board = last.before[1]

\* GenerateLegalMoves has just returned in check, with an en-passant capture it accepted
GeneratedInCheck ==
    /\ last.op = "GenerateMovesForPiece" /\ last.arg = Nothing
    /\ SingleCheck(board)
    /\ \E p \in EnPassantCandidates(board) : MoveOf(p, board.enpassant) \in Range(last.ret)
    /\ board = last.before[1]


(***************************************************************************)
(* C26  Make(m) followed by Undo() also brings back the index of the last  *)
(* irreversible ply that repetition detection scans down to: for every     *)
(* move m of GenerateLegalMoves, captures and pawn moves among them, and   *)
(* every n, IsRepetition(n) gives the same answer on the board before the  *)
(* Make and on the board after the Undo, also when the position had        *)
(* occurred several times.                                                 *)
(***************************************************************************)
C26_UndoRestoresRepetition ==
    ourBitboards(board).Kings /= {} =>
        \A m \in LegalMoves :
            \E after \in {Undo(Make(board, m))} :
                /\ after.irreversibleIdx = board.irreversibleIdx
                /\ \A n \in 0..3 : IsRepetition(after, n) = IsRepetition(board, n)


\* no termination condition holds for the position b, which has moveCount legal moves
NoConditionHolds(b, moveCount) ==
    /\ moveCount > 0
    /\ b.Halfmoveclock < 100
    /\ ~IsRepetition(b, 3)
    /\ ~IsInsufficientMaterial(b).ret

(***************************************************************************)
(* C27  IsTerminated and Termination() describe the current position only: *)
(* a termination flag that IsTerminated set on an earlier position does    *)
(* not outlive a Make.  For every move m of GenerateLegalMoves, when the    *)
(* position after Make(m) has legal moves and no termination condition     *)
(* holds in it, IsTerminated(moveCount) returns false on it and            *)
(* Termination() is None, whatever IsTerminated reported before the Make.  *)
(***************************************************************************)
C27_TerminationOfCurrentPosition ==
    ourBitboards(board).Kings /= {} =>
        \A m \in LegalMoves :
            \E a \in {Make(board, m)} :
               \E moveCount \in {Len(GenerateLegalMoves(a))} :
                  NoConditionHolds(a, moveCount) =>
                     \E r \in {IsTerminated(a, moveCount)} :
                        ~r.ret /\ Termination(r.b) = TerminationNone


\* x is the only piece between the king of the side to move and an enemy bishop or queen,
\* all three on one diagonal
DiagonallyPinned(b, x) ==
    LET k == KingSquare(b, b.Wtomove)
    IN /\ x \in ourBitboards(b).All \ ourBitboards(b).Kings
       /\ \E r \in oppBitboards(b).Bishops \cup oppBitboards(b).Queens :
             /\ Diagonal(r, k)
             /\ StrictlyBetween(k, r) \cap Occupied(b) = {x}

(***************************************************************************)
(* C28  An en-passant capture generated for a diagonally pinned pawn moves *)
(* the pawn one rank forward for its side, onto the en-passant square      *)
(* (White: origin + 7 or origin + 9, Black: origin - 7 or origin - 9); for *)
(* neither side is a pinned pawn given a move to an en-passant square that *)
(* lies one rank behind it.                                                *)
(***************************************************************************)
C28_PinnedEnPassantForward ==
    (ourBitboards(board).Kings /= {} /\ board.enpassant /= 0) =>
        \A m \in LegalMoves :
            (/\ From(m) \in ourBitboards(board).Pawns
             /\ DiagonallyPinned(board, From(m))
             /\ To(m) = board.enpassant) =>
                /\ Rank(To(m)) - Rank(From(m)) = (IF board.Wtomove THEN 1 ELSE -1)
                /\ To(m) - From(m) \in (IF board.Wtomove THEN {7, 9} ELSE {-7, -9})


(***************************************************************************)
(* C29  UndoNullMove called with no MakeNullMove outstanding, on a board   *)
(* whose history holds the root entry only, does nothing, like Undo: the   *)
(* side to move, the en-passant square, the hash and the history stay, the *)
(* root entry is not taken off, and so the history never has fewer than    *)
(* one entry, whatever operations are called.                              *)
(***************************************************************************)
C29_UndoNullMoveAtRootIsNoOp ==
    /\ [](Len(board.history) >= 1)
    /\ [][(last'.op = "UndoNullMove" /\ Len(board.history) = 1) =>
             /\ board'.Wtomove = board.Wtomove
             /\ board'.enpassant = board.enpassant
             /\ board'.hash = board.hash
             /\ board'.history = board.history]_vars


(***************************************************************************)
(* Two callers of GenerateLegalMoves, on one Board they share or on one    *)
(* Board each.  A call is cut where it writes to the Board: pawnCaptures   *)
(* writes the en-passant trial and writes it back after OurKingInCheck,    *)
(* kingPushes takes the king off and puts it back after testing its        *)
(* destinations; the code between two writes is one step.  In this         *)
(* specification walk holds the two calls in progress:                     *)
(*   shared    whether both callers use the Board of the variable board     *)
(*   start     the Board before the first call                             *)
(*   overlap   whether a caller has taken a step while the other was at    *)
(*             work                                                        *)
(*   callers   for each caller, where it is (pc), its Board when the       *)
(*             Boards are separate (own), and its locals                   *)
(* With no king on the Board it reads, a caller indexes the attack tables  *)
(* with square 64 and stops (pc = "panicked"), at whatever point it is.    *)
(***************************************************************************)
IdleCaller(b) ==
    [pc |-> "idle", own |-> b, moves |-> <<>>, n |-> 0, allowDest |-> {}, nonpinned |-> {},
     caps |-> <<>>, trial |-> 0, oldKings |-> {}, king |-> 0, targets |-> {}]

InitShared ==
    /\ board \in InitialBoards
    /\ ply = 0
    /\ last = NoCall
    /\ walk \in {[shared |-> s, start |-> board, overlap |-> FALSE,
                  callers |-> <<IdleCaller(board), IdleCaller(board)>>] : s \in BOOLEAN}

\* every caller works on the shared Board
CallerBoardAlwaysShared(t) == board

\* the Board caller t reads and writes
CallerBoard(t) == IF walk.shared THEN board ELSE walk.callers[t].own

AtWork(c) == c.pc \notin {"idle", "done"}

\* caller t ends a step with the locals c, having left the Board it works on as b
Written(t, c, b) ==
    /\ walk' = [walk EXCEPT !.callers[t] = [c EXCEPT !.own = IF walk.shared THEN @ ELSE b],
                            !.overlap = @ \/ AtWork(walk.callers[3 - t])]
    /\ board' = IF walk.shared THEN b ELSE board
    /\ UNCHANGED <<ply, last>>

\* pawnCaptures: the captures in the order of its two loops, before the en-passant trial
\* and the promotions
pawnCaptureCandidates(b, nonpinned, allowDest0) ==
    LET bbs == pawnCaptureBitboards(b, nonpinned)
        allowDest == IF b.enpassant > 0 THEN allowDest0 \cup Bit(b.enpassant) ELSE allowDest0
        dirbitboards == IF b.Wtomove THEN <<bbs.east \cap allowDest, bbs.west \cap allowDest>>
                        ELSE <<bbs.west \cap allowDest, bbs.east \cap allowDest>>
        Candidate(dir, target) ==
            MoveOf(IF b.Wtomove THEN target - (9 - (dir * 2)) ELSE target + (9 - (dir * 2)),
                   target)
        DirCandidates(dir) ==
            LET ts == BitsAscending(dirbitboards[dir + 1])
            IN [i \in 1..Len(ts) |-> Candidate(dir, ts[i])]
    IN DirCandidates(0) \o DirCandidates(1)

\* pawnCaptures: what is appended for a capture that is kept
captureMoves(b, move) ==
    IF (IF b.Wtomove THEN To(move) >= 56 ELSE To(move) <= 7)
    THEN PromotionMoves(move) ELSE <<move>>

IsEnPassantCandidate(b, move) == To(move) = b.enpassant /\ b.enpassant /= 0

\* GenerateMovesForPiece(Nothing) up to the loops of pawnCaptures
GenerateBegin ==
    \E t \in 1..2 : \E c \in {walk.callers[t]} : \E b \in {CallerBoard(t)} :
       /\ c.pc = "idle"
       /\ IF ourBitboards(b).Kings = {}
          THEN Written(t, [c EXCEPT !.pc = "panicked"], b)
          ELSE \E attacks \in {CountAttacks(b, b.Wtomove,
                                            TrailingZeros64(ourBitboards(b).Kings), 2)} :
                 IF attacks.n >= 2
                 THEN Written(t, [c EXCEPT !.pc = "captures", !.n = attacks.n], b)
                 ELSE \E allowDest \in {IF attacks.n = 1 THEN attacks.mask ELSE everything} :
                      \E pins \in {generatePinnedMoves(b, allowDest)} :
                         Written(t, [c EXCEPT !.pc = "captures", !.n = attacks.n,
                                        !.allowDest = allowDest,
                                        !.nonpinned = Squares \ pins.pinned,
                                        !.moves = pins.moves
                                                  \o pawnPushes(b, Squares \ pins.pinned, allowDest),
                                        !.caps = pawnCaptureCandidates(b, Squares \ pins.pinned,
                                                                       allowDest)], b)

\* pawnCaptures: the captures before the next capture onto the en-passant square are
\* appended, then the trial of that capture is written to the Board
EnPassantTrialOpen ==
    \E t \in 1..2 : \E c \in {walk.callers[t]} : \E b \in {CallerBoard(t)} :
       /\ c.pc = "captures"
       /\ \E i \in DOMAIN c.caps :
             /\ IsEnPassantCandidate(b, c.caps[i])
             /\ \A j \in 1..(i - 1) : ~IsEnPassantCandidate(b, c.caps[j])
             /\ Written(t, [c EXCEPT !.pc = "trial", !.trial = c.caps[i],
                               !.caps = SubSeq(@, i + 1, Len(@)),
                               !.moves = @ \o Flatten([j \in 1..(i - 1) |->
                                                          captureMoves(b, c.caps[j])])],
                        EnPassantTrialBoard(b, c.caps[i]))

\* pawnCaptures: OurKingInCheck on the Board as it is now, then the trial is written back
EnPassantTrialClose ==
    \E t \in 1..2 : \E c \in {walk.callers[t]} : \E b \in {CallerBoard(t)} :
       /\ c.pc = "trial"
       /\ IF ourBitboards(b).Kings = {}
          THEN Written(t, [c EXCEPT !.pc = "panicked"], b)
          ELSE Written(t, [c EXCEPT !.pc = "captures", !.trial = 0,
                              !.moves = IF OurKingInCheck(b) THEN @
                                        ELSE @ \o captureMoves(b, c.trial)],
                       enPassantTrialRestored(b, c.trial))

\* the rest of pawnCaptures, the moves of the knights, rooks, bishops and queens, the
\* castling moves, and the first lines of kingPushes, which take the king off the Board
KingRemovalOpen ==
    \E t \in 1..2 : \E c \in {walk.callers[t]} : \E b \in {CallerBoard(t)} :
       /\ c.pc = "captures"
       /\ \A j \in DOMAIN c.caps : ~IsEnPassantCandidate(b, c.caps[j])
       /\ IF ourBitboards(b).Kings = {}
          THEN Written(t, [c EXCEPT !.pc = "panicked"], b)
          ELSE Written(t, [c EXCEPT !.pc = "king", !.caps = <<>>,
                              !.oldKings = ourBitboards(b).Kings,
                              !.king = TrailingZeros64(ourBitboards(b).Kings),
                              !.targets = kingMasks[TrailingZeros64(ourBitboards(b).Kings)]
                                          \cap (Squares \ ourBitboards(b).All),
                              !.moves = (@ \o Flatten([j \in DOMAIN c.caps |->
                                                          captureMoves(b, c.caps[j])]))
                                        \o (IF c.n >= 2 THEN <<>>
                                            ELSE knightMoves(b, c.nonpinned, c.allowDest)
                                                 \o rookMoves(b, c.nonpinned, c.allowDest)
                                                 \o bishopMoves(b, c.nonpinned, c.allowDest)
                                                 \o queenMoves(b, c.nonpinned, c.allowDest)
                                                 \o (IF c.n = 0 THEN kingCastlingMoves(b)
                                                     ELSE <<>>))],
                       KingRemovedBoard(b))

\* kingPushes: the king's destinations are tested on the Board as it is now, then the king
\* is put back and the call returns
KingRemovalClose ==
    \E t \in 1..2 : \E c \in {walk.callers[t]} : \E b \in {CallerBoard(t)} :
       /\ c.pc = "king"
       /\ Written(t, [c EXCEPT !.pc = "done",
                         !.moves = @ \o genMovesFromTargets(c.king,
                                           {x \in c.targets :
                                               ~UnderDirectAttack(b, b.Wtomove, x)})],
                  kingPushesRestored(b, c.oldKings, c.king))

NextShared ==
    \/ GenerateBegin
    \/ EnPassantTrialOpen
    \/ EnPassantTrialClose
    \/ KingRemovalOpen
    \/ KingRemovalClose

SpecShared == InitShared /\ [][NextShared]_vars

\* what GenerateLegalMoves returns when nothing else touches the Board
SequentialResult == GenerateLegalMoves(walk.start)

(***************************************************************************)
(* C30  Move generation on one shared Board is not atomic.  Two            *)
(* generations on two separate Boards, one for each thread, always return  *)
(* the sequential result and leave their Boards as they were, and so do    *)
(* two generations on one Board of which one is over before the other      *)
(* begins; a caller that reads the shared Board inside the other's         *)
(* king-removal window or en-passant trial window sees the Kings mask      *)
(* empty or a pawn displaced, and there is an interleaving whose result is *)
(* not the sequential one (C30_Witness).                                   *)
(***************************************************************************)
C30_SeparateBoardsSequential ==
    (~walk.shared \/ ~walk.overlap) =>
        \A t \in 1..2 :
            /\ walk.callers[t].pc /= "panicked"
            /\ walk.callers[t].pc = "done" => walk.callers[t].moves = SequentialResult
            /\ (~AtWork(walk.callers[t]) /\ (walk.shared => ~AtWork(walk.callers[3 - t]))) =>
                  CallerBoard(t) = walk.start

\* both calls on the shared Board have returned, and a caller that began while the other
\* had displaced a pawn for its en-passant trial has a result that is not the sequential one
C30_Witness ==
    /\ walk.shared
    /\ walk.callers[1].pc = "done" /\ walk.callers[2].pc = "done"
    /\ walk.callers[1].moves = SequentialResult
    /\ walk.callers[2].moves /= SequentialResult

\* a caller on the shared Board has read the Kings mask empty, inside the king-removal
\* window of the other
KingsObservedEmpty ==
    /\ walk.shared
    /\ walk.callers[1].pc = "king"
    /\ ourBitboards(board).Kings = {}
    /\ walk.callers[2].pc = "panicked"

\* a caller on the shared Board is at work while the other has a pawn displaced
PawnObservedDisplaced ==
    /\ walk.shared
    /\ walk.callers[1].pc = "trial"
    /\ To(walk.callers[1].trial) \in ourBitboards(board).Pawns
    /\ walk.callers[2].pc = "captures"
    /\ walk.callers[2].moves /= <<>>

=============================================================================
